---- MODULE Spec2Model ----
(***************************************************************************)
(* A model of the scoutfs item cache (src/src/item.c): the augmented       *)
(* rbtree of cached items, the set of cached key ranges, the LRU of clean  *)
(* items, the dirty counters, and the item API that reads through to the   *)
(* segments and writes dirty items back to them.                           *)
(***************************************************************************)
EXTENDS Integers, Sequences, FiniteSets, TLC

(* ---------------------------------------------------------------- bounds *)

\* keys are 0..MaxKey; scoutfs_key_inc/dec are +1/-1 on them
MaxKey == 2
\* the core API on keys 0..CoreKey, up to CoreOps calls
CoreKey == 1
CoreOps == 3
\* the core API on the single key 0, up to OneOps calls
OneOps == 6
\* creates, deletes, saves and restores on keys 0..CoreKey, up to SaveOps calls
SaveOps == 4
\* the whole API on keys 0..MaxKey, up to FullOps calls
FullOps == 2

\* the largest nr_to_scan the shrinker is called with
MaxScan == 2
\* entries kept of each key's history of writes
MaxHist == 3
\* the longest key array given to copy_keys
MaxNr == 2

Keys == 0 .. MaxKey
\* item values: byte strings of different lengths
Vals == { <<1>>, <<2, 3>> }
\* the caller's value kvec: NIL for a null pointer, else its iov_len
MaxBuf == 2

(* ------------------------------------------------------------- constants *)

NIL == -1
NoVal == << -1 >>
Bufs == {NIL} \cup (0 .. MaxBuf)

ITEM_DIRTY == 1
LEFT_DIRTY == 2
RIGHT_DIRTY == 4

ENOENT == -2
EIO == -5
EEXIST == -17
EINVAL == -22
ENODATA == -61

BOUNDARY_MIN == 32
BOUNDARY_MAX == 300

SCOUTFS_LOCK_READ == 1
SCOUTFS_LOCK_WRITE == 2
SCOUTFS_LOCK_WRITE_ONLY == 3

(* ------------------------------------------------------- key primitives *)

scoutfs_key_inc(k) == k + 1
scoutfs_key_dec(k) == k - 1

\* < 0 when a ends before b starts, > 0 when a starts after b ends, 0 on overlap
scoutfs_key_compare_ranges(as, ae, bs, be) ==
    IF ae < bs THEN -1 ELSE IF as > be THEN 1 ELSE 0

Min2(a, b) == IF a < b THEN a ELSE b
Max2(a, b) == IF a > b THEN a ELSE b

(* ------------------------------------------------------- the item rbtree *)
(* A tree T is [root, nd]: nd maps the key of each linked item to its      *)
(* cached_item: val, deletion, persistent, dirty (the three dirty bits),   *)
(* and the rb_node's left, right, parent and colour.                       *)

EmptyTree == [root |-> NIL, nd |-> << >>]

InTree(T, k) == k \in DOMAIN T.nd

HasBit(d, b) == (d \div b) % 2 = 1
SetBit(d, b) == IF HasBit(d, b) THEN d ELSE d + b
ClearBit(d, b) == IF HasBit(d, b) THEN d - b ELSE d

item_is_dirty(it) == HasBit(it.dirty, ITEM_DIRTY)

node_dirty_bit(T, node, dirty) ==
    IF node # NIL /\ T.nd[node].dirty # 0 THEN dirty ELSE 0

compute_item_dirty(T, k) ==
    (IF HasBit(T.nd[k].dirty, ITEM_DIRTY) THEN ITEM_DIRTY ELSE 0)
    + node_dirty_bit(T, T.nd[k].left, LEFT_DIRTY)
    + node_dirty_bit(T, T.nd[k].right, RIGHT_DIRTY)

SetDirtyBits(T, k, d) == [T EXCEPT !.nd[k].dirty = d]

RECURSIVE scoutfs_item_rb_propagate(_, _, _)
scoutfs_item_rb_propagate(T, node, stop) ==
    IF node = stop \/ node = NIL THEN T
    ELSE IF T.nd[node].dirty = compute_item_dirty(T, node) THEN T
    ELSE scoutfs_item_rb_propagate(SetDirtyBits(T, node, compute_item_dirty(T, node)),
                                   T.nd[node].parent, stop)

scoutfs_item_rb_copy(T, new) == SetDirtyBits(T, new, compute_item_dirty(T, new))

\* the new parent is calculated last as it depends on the old parent
scoutfs_item_rb_rotate(T, old, new) ==
    scoutfs_item_rb_copy(SetDirtyBits(T, old, compute_item_dirty(T, old)), new)

update_dirty_parents(T, k) == scoutfs_item_rb_propagate(T, T.nd[k].parent, NIL)

(* ---- the kernel rbtree (rb_insert_augmented, rb_erase_augmented) ---- *)

Opp(d) == IF d = "L" THEN "R" ELSE "L"
Child(T, k, d) == IF d = "L" THEN T.nd[k].left ELSE T.nd[k].right
SetChild(T, k, d, c) ==
    IF d = "L" THEN [T EXCEPT !.nd[k].left = c] ELSE [T EXCEPT !.nd[k].right = c]
SetParent(T, k, p) == IF k = NIL THEN T ELSE [T EXCEPT !.nd[k].parent = p]
SetRed(T, k, r) == IF k = NIL THEN T ELSE [T EXCEPT !.nd[k].red = r]
IsRed(T, k) == k # NIL /\ T.nd[k].red
IsBlack(T, k) == k = NIL \/ ~T.nd[k].red

rb_change_child(T, old, new, parent) ==
    IF parent = NIL THEN [T EXCEPT !.root = new]
    ELSE IF T.nd[parent].left = old THEN [T EXCEPT !.nd[parent].left = new]
    ELSE [T EXCEPT !.nd[parent].right = new]

\* x goes down in direction d under y, its child on the other side, whose
\* child b on side d becomes x's; then the augment callback recomputes both
RotateLink(T, x, d, y, b, p) ==
    scoutfs_item_rb_rotate(
        rb_change_child(
            SetParent(SetParent(SetChild(SetParent(SetChild(T, x, Opp(d), b), b, x),
                                         y, d, x),
                                x, y),
                      y, p),
            x, y, p),
        x, y)

RotateAt(T, x, d, y) == RotateLink(T, x, d, y, Child(T, y, d), T.nd[x].parent)

Rotate(T, x, d) == RotateAt(T, x, d, Child(T, x, Opp(d)))

\* Case 2 - rotate at parent (when node is the inner child), then
\* Case 3 - rotate at gparent
rb_insert_rotate(T, node, parent, gparent, d, inner) ==
    SetRed(SetRed(Rotate(IF inner THEN Rotate(T, parent, d) ELSE T, gparent, Opp(d)),
                  IF inner THEN node ELSE parent, FALSE),
           gparent, TRUE)

RECURSIVE rb_insert_fix(_, _)
rb_insert_uncle(T, node, parent, gparent, d, tmp) ==
    IF IsRed(T, tmp) THEN
        \* Case 1 - color flips
        rb_insert_fix(SetRed(SetRed(SetRed(T, tmp, FALSE), parent, FALSE),
                             gparent, TRUE), gparent)
    ELSE rb_insert_rotate(T, node, parent, gparent, d,
                          Child(T, parent, Opp(d)) = node)

rb_insert_gparent(T, node, parent, gparent, d) ==
    rb_insert_uncle(T, node, parent, gparent, d, Child(T, gparent, Opp(d)))

rb_insert_parent(T, node, parent) ==
    IF parent = NIL THEN SetRed(T, node, FALSE)
    ELSE IF ~T.nd[parent].red THEN T
    ELSE rb_insert_gparent(T, node, parent, T.nd[parent].parent,
                           IF T.nd[T.nd[parent].parent].left = parent THEN "L" ELSE "R")

rb_insert_fix(T, node) == rb_insert_parent(T, node, T.nd[node].parent)

\* rb_link_node: the node keeps the dirty bits it came with
rb_link_node(T, k, rec, parent, d) ==
    SetChild([T EXCEPT !.root = IF parent = NIL THEN k ELSE @,
                       !.nd = [x \in (DOMAIN T.nd) \cup {k} |->
                                 IF x = k
                                 THEN [rec EXCEPT !.left = NIL, !.right = NIL,
                                                  !.parent = parent, !.red = TRUE]
                                 ELSE T.nd[x]]],
             IF parent = NIL THEN k ELSE parent, d,
             IF parent = NIL THEN NIL ELSE k)

\* rb_link_node then rb_insert_augmented
rb_link_insert(T, k, rec, parent, d) ==
    rb_insert_fix(rb_link_node(T, k, rec, parent, d), k)

\* Case 4 - rotate at parent + color flips
rb_erase_case4(T3, parent, d, sib3, far3) ==
    SetRed(SetRed(SetRed(Rotate(T3, parent, d), sib3, T3.nd[parent].red),
                  parent, FALSE),
           far3, FALSE)

RECURSIVE rb_erase_color(_, _, _)
rb_erase_sibling(T1, parent, d, o, sib1, far, near) ==
    IF IsBlack(T1, far) /\ IsBlack(T1, near) THEN
        \* Case 2 - sibling color flip
        IF T1.nd[parent].red THEN SetRed(SetRed(T1, sib1, TRUE), parent, FALSE)
        ELSE IF T1.nd[parent].parent # NIL
             THEN rb_erase_color(SetRed(T1, sib1, TRUE), T1.nd[parent].parent, parent)
             ELSE SetRed(T1, sib1, TRUE)
    ELSE
        \* Case 3 - rotate at sibling
        rb_erase_case4(IF IsBlack(T1, far) THEN Rotate(T1, sib1, o) ELSE T1,
                       parent, d,
                       IF IsBlack(T1, far) THEN near ELSE sib1,
                       IF IsBlack(T1, far) THEN sib1 ELSE far)

rb_erase_nephews(T1, parent, d, o, sib1) ==
    rb_erase_sibling(T1, parent, d, o, sib1, Child(T1, sib1, o), Child(T1, sib1, d))

rb_erase_case1(T1, parent, d, o) ==
    rb_erase_nephews(T1, parent, d, o, Child(T1, parent, o))

\* Case 1 - rotate at parent, the red sibling takes its colour
rb_erase_side(T, parent, d, o, sib0) ==
    rb_erase_case1(IF IsRed(T, sib0)
                   THEN SetRed(SetRed(Rotate(T, parent, d), sib0, T.nd[parent].red),
                               parent, TRUE)
                   ELSE T,
                   parent, d, o)

rb_erase_dir(T, parent, d) ==
    rb_erase_side(T, parent, d, Opp(d), Child(T, parent, Opp(d)))

rb_erase_color(T, parent, node) ==
    rb_erase_dir(T, parent, IF T.nd[parent].right # node THEN "L" ELSE "R")

Leftmost(T, k) ==
    LET RECURSIVE down(_)
        down(x) == IF T.nd[x].left = NIL THEN x ELSE down(T.nd[x].left)
    IN  down(k)

DropNode(T, k) == [T EXCEPT !.nd = [x \in (DOMAIN T.nd) \ {k} |-> T.nd[x]]]

\* propagate from tmp, unlink the node's memory, rebalance
rb_erase_finish(T, node, tmp, rebalance) ==
    IF rebalance # NIL
    THEN rb_erase_color(DropNode(scoutfs_item_rb_propagate(T, tmp, NIL), node),
                        rebalance, NIL)
    ELSE DropNode(scoutfs_item_rb_propagate(T, tmp, NIL), node)

\* Case 1: at most one child c, which takes the node's place and colour
rb_erase_one(T, node, n, c) ==
    rb_erase_finish(SetRed(SetParent(rb_change_child(T, node, c, n.parent), c, n.parent),
                           c, n.red),
                    node, n.parent,
                    IF c = NIL /\ ~n.red THEN n.parent ELSE NIL)

\* the successor takes the node's place, children and colour
rb_erase_replace(T, node, n, successor, s, child2, parent) ==
    rb_erase_finish(
        SetRed(SetParent(
                 SetRed(SetParent(rb_change_child(SetParent(SetChild(T, successor, "L", n.left),
                                                            n.left, successor),
                                                  node, successor, n.parent),
                                  successor, n.parent),
                        successor, n.red),
                 child2, parent),
               child2, FALSE),
        node, successor,
        IF child2 = NIL /\ ~s.red THEN parent ELSE NIL)

\* Case 2: the successor is the node's right child
\* Case 3: the successor is the leftmost node under the right child
rb_erase_two(T, node, n, successor, s, direct) ==
    rb_erase_replace(
        IF direct THEN scoutfs_item_rb_copy(T, successor)
        ELSE scoutfs_item_rb_propagate(
                 scoutfs_item_rb_copy(
                     SetParent(SetChild(SetChild(T, s.parent, "L", s.right),
                                        successor, "R", n.right),
                               n.right, successor),
                     successor),
                 s.parent, successor),
        node, n, successor, s, s.right,
        IF direct THEN successor ELSE s.parent)

rb_erase_successor(T, node, n, successor) ==
    rb_erase_two(T, node, n, successor, T.nd[successor], successor = n.right)

rb_erase_node(T, node, n) ==
    IF n.left = NIL \/ n.right = NIL
    THEN rb_erase_one(T, node, n, IF n.left = NIL THEN n.right ELSE n.left)
    ELSE rb_erase_successor(T, node, n, Leftmost(T, n.right))

rb_erase_augmented(T, node) == rb_erase_node(T, node, T.nd[node])

(* ------------------------------------------------- walking the item tree *)

\* the item found and the next and prev items
walk_items(T, key) ==
    LET RECURSIVE walk(_, _, _)
        walk(node, prev, next) ==
            IF node = NIL THEN [item |-> NIL, prev |-> prev, next |-> next]
            ELSE IF key < node THEN walk(T.nd[node].left, prev, node)
            ELSE IF key > node THEN walk(T.nd[node].right, node, next)
            ELSE [item |-> node, prev |-> prev, next |-> next]
    IN  walk(T.root, NIL, NIL)

Visible(T, item) == IF item # NIL /\ T.nd[item].deletion THEN NIL ELSE item

\* a lookup that also finds deletion items
find_item_deleted(T, key) == IF InTree(T, key) THEN key ELSE NIL

\* deletion items are hidden from the callers that look for existing items
find_item(T, key) == Visible(T, walk_items(T, key).item)

ItemOr(w, other) == IF w.item # NIL THEN w.item ELSE other

next_item(T, key) ==
    CHOOSE i \in { ItemOr(w, w.next) : w \in {walk_items(T, key)} } : TRUE

prev_item(T, key) ==
    CHOOSE i \in { ItemOr(w, w.prev) : w \in {walk_items(T, key)} } : TRUE

Rightmost(T, k) ==
    LET RECURSIVE down(_)
        down(x) == IF T.nd[x].right = NIL THEN x ELSE down(T.nd[x].right)
    IN  down(k)

rb_next_item(T, item) ==
    LET RECURSIVE up(_)
        up(x) == IF T.nd[x].parent # NIL /\ T.nd[T.nd[x].parent].right = x
                 THEN up(T.nd[x].parent) ELSE T.nd[x].parent
    IN  IF item = NIL THEN NIL
        ELSE IF T.nd[item].right # NIL THEN Leftmost(T, T.nd[item].right)
        ELSE up(item)

rb_prev_item(T, item) ==
    LET RECURSIVE up(_)
        up(x) == IF T.nd[x].parent # NIL /\ T.nd[T.nd[x].parent].left = x
                 THEN up(T.nd[x].parent) ELSE T.nd[x].parent
    IN  IF item = NIL THEN NIL
        ELSE IF T.nd[item].left # NIL THEN Rightmost(T, T.nd[item].left)
        ELSE up(item)

(* ------------------------------------------------------ the item cache *)
(* cac is the struct item_cache: items (the rbtree), ranges (a set of     *)
(* [start, end]), lru_list (keys of the items on the list, head first),   *)
(* lru_nr, nr_dirty_items, dirty_val_bytes.                               *)

EmptyCache ==
    [items |-> EmptyTree, ranges |-> {}, lru_list |-> << >>, lru_nr |-> 0,
     nr_dirty_items |-> 0, dirty_val_bytes |-> 0]

\* a cached_item as alloc_item leaves it
alloc_item(val) ==
    [val |-> val, deletion |-> FALSE, persistent |-> FALSE, dirty |-> 0,
     left |-> NIL, right |-> NIL, parent |-> NIL, red |-> FALSE]

\* a copy that ignores the length of the caller's buffer
copy_item_val_whole(buf, it) == IF buf # NIL THEN it.val ELSE << >>

\* min(item->val_len, val->iov_len) bytes are copied; a null val copies nothing
copy_item_val(buf, it) ==
    IF buf # NIL
    THEN SubSeq(it.val, 1, IF Len(it.val) < buf THEN Len(it.val) ELSE buf)
    ELSE << >>

ListDel(list, k) == SelectSeq(list, LAMBDA x : x # k)
OnList(list, k) == \E i \in 1 .. Len(list) : list[i] = k

update_dirty_item_counts(cac, items, vals) ==
    [cac EXCEPT !.nr_dirty_items = @ + items, !.dirty_val_bytes = @ + vals]

mark_item_dirty(cac, k) ==
    IF item_is_dirty(cac.items.nd[k]) THEN cac
    ELSE update_dirty_item_counts(
             [cac EXCEPT !.items = update_dirty_parents(
                                       SetDirtyBits(@, k, SetBit(@.nd[k].dirty, ITEM_DIRTY)),
                                       k),
                         !.lru_list = ListDel(@, k),
                         !.lru_nr = @ - 1],
             1, Len(cac.items.nd[k].val))

\* a clean item that is not put on the LRU
clear_item_dirty_unlisted(c, k) ==
    IF ~item_is_dirty(c.items.nd[k]) THEN c
    ELSE update_dirty_item_counts(
             [c EXCEPT !.items = update_dirty_parents(
                                     SetDirtyBits(@, k, ClearBit(@.nd[k].dirty, ITEM_DIRTY)),
                                     k)],
             -1, -Len(c.items.nd[k].val))

clear_item_dirty(cac, k) ==
    IF ~item_is_dirty(cac.items.nd[k]) THEN cac
    ELSE update_dirty_item_counts(
             [cac EXCEPT !.items = update_dirty_parents(
                                       SetDirtyBits(@, k, ClearBit(@.nd[k].dirty, ITEM_DIRTY)),
                                       k),
                         !.lru_list = Append(ListDel(@, k), k),
                         !.lru_nr = @ + 1],
             -1, -Len(cac.items.nd[k].val))

\* only an item with no dirty bit at all is moved to the tail
item_referenced(cac, k) ==
    IF cac.items.nd[k].dirty = 0
    THEN [cac EXCEPT !.lru_list = Append(ListDel(@, k), k)]
    ELSE cac

\* if (!list_empty(&item->entry)) { list_del_init(); lru_nr-- }
lru_del(cac, k) ==
    IF OnList(cac.lru_list, k)
    THEN [cac EXCEPT !.lru_list = ListDel(@, k), !.lru_nr = @ - 1]
    ELSE cac

rb_erase_item(cac, k) == [cac EXCEPT !.items = rb_erase_augmented(@, k)]

\* remove the item from its tracking data structures
unlink_item(cac, k) == lru_del(rb_erase_item(clear_item_dirty(cac, k), k), k)

erase_item(cac, k) == unlink_item(cac, k)

set_deletion(cac, k) ==
    [cac EXCEPT !.items.nd[k].val = << >>, !.items.nd[k].deletion = TRUE]

\* a delete that erases the item whether or not it is persistent
delete_item_erase(c, k) == erase_item(c, k)

\* a delete that leaves a deletion item whether or not the item is persistent
delete_item_keep(c, k) == mark_item_dirty(set_deletion(clear_item_dirty(c, k), k), k)

delete_item(cac, k) ==
    IF ~cac.items.nd[k].persistent THEN erase_item(cac, k)
    ELSE mark_item_dirty(set_deletion(clear_item_dirty(cac, k), k), k)

\* the descent to the key: each item passed gets the bit of the side taken
\* when the inserted item comes with dirty bits
insert_walk(T, key, ins_dirty) ==
    LET RECURSIVE descend(_, _, _, _)
        descend(Tc, node, parent, d) ==
            IF node = NIL THEN [T |-> Tc, hit |-> NIL, parent |-> parent, d |-> d]
            ELSE IF key < node THEN
                descend(IF ins_dirty # 0
                        THEN SetDirtyBits(Tc, node, SetBit(Tc.nd[node].dirty, LEFT_DIRTY))
                        ELSE Tc,
                        Tc.nd[node].left, node, "L")
            ELSE IF key > node THEN
                descend(IF ins_dirty # 0
                        THEN SetDirtyBits(Tc, node, SetBit(Tc.nd[node].dirty, RIGHT_DIRTY))
                        ELSE Tc,
                        Tc.nd[node].right, node, "R")
            ELSE [T |-> Tc, hit |-> node, parent |-> parent, d |-> d]
    IN  descend(T, T.root, NIL, "L")

insert_link(cac, key, ins, w) ==
    [cac |-> [cac EXCEPT !.items = rb_link_insert(w.T, key, ins, w.parent, w.d),
                         !.lru_list = Append(@, key),
                         !.lru_nr = @ + 1],
     ret |-> 0]

(* insert_item: ins is the cached_item to link at key.  freed is the value  *)
(* the read of item->persistent returns after erase_item() has freed item. *)
RECURSIVE insert_item(_, _, _, _, _, _)
insert_found(cac, key, ins, logical_overwrite, cache_populate, freed, w) ==
    IF w.hit # NIL THEN
        IF cache_populate \/ (~w.T.nd[w.hit].deletion /\ ~logical_overwrite)
        THEN [cac |-> [cac EXCEPT !.items = w.T], ret |-> EEXIST]
        ELSE insert_item(erase_item([cac EXCEPT !.items = w.T], w.hit), key,
                         [ins EXCEPT !.persistent = @ \/ freed],
                         logical_overwrite, cache_populate, freed)
    ELSE insert_link(cac, key, ins, w)

insert_item(cac, key, ins, logical_overwrite, cache_populate, freed) ==
    insert_found(cac, key, ins, logical_overwrite, cache_populate, freed,
                 insert_walk(cac.items, key, ins.dirty))

(* ------------------------------------------------------- cached ranges *)

Rng(s, e) == [start |-> s, end |-> e]

Overlaps(R, r) ==
    { rng \in R : scoutfs_key_compare_ranges(r.start, r.end, rng.start, rng.end) = 0 }

\* the overlapping range the descent comes to
FirstOverlap(R, r) ==
    CHOOSE rng \in Overlaps(R, r) :
        \A o \in Overlaps(R, r) : rng.start < o.start \/ (rng.start = o.start /\ rng.end <= o.end)

walk_ranges(R, key) ==
    IF Overlaps(R, Rng(key, key)) = {} THEN Rng(NIL, NIL)
    ELSE FirstOverlap(R, Rng(key, key))

check_range(R, key) == Overlaps(R, Rng(key, key)) # {}

RECURSIVE insert_range(_, _)
\* an insert that takes the place of the ranges it overlaps
insert_range_replacing(R, ins) == (R \ Overlaps(R, ins)) \cup {ins}

\* an insert that adds the range beside the ranges it overlaps
insert_range_unmerged(R, ins) == R \cup {ins}

insert_range(R, ins) ==
    IF Overlaps(R, ins) = {} THEN R \cup {ins}
    ELSE
      LET rng == FirstOverlap(R, ins)
          start_cmp == ins.start - rng.start
          end_cmp == ins.end - rng.end
      IN
      \* free our insertion if we're entirely within an existing
      IF start_cmp >= 0 /\ end_cmp <= 0 THEN R
      \* expand to cover partial overlap before freeing
      ELSE IF start_cmp < 0 /\ end_cmp < 0
           THEN insert_range(R \ {rng}, Rng(ins.start, rng.end))
      ELSE IF start_cmp > 0 /\ end_cmp > 0
           THEN insert_range(R \ {rng}, Rng(rng.start, ins.end))
      ELSE insert_range(R \ {rng}, ins)

RECURSIVE remove_range_from(_, _, _)
remove_range_from(R, rem, insert) ==
    IF Overlaps(R, rem) = {} THEN (IF insert THEN R \cup {rem} ELSE R)
    ELSE
      LET rng == FirstOverlap(R, rem)
          start_cmp == rem.start - rng.start
          end_cmp == rem.end - rng.end
      IN
      \* remove the middle of an existing range, insert other half
      IF start_cmp > 0 /\ end_cmp < 0 THEN
          remove_range_from((R \ {rng}) \cup {Rng(rng.start, scoutfs_key_dec(rem.start))},
                            Rng(scoutfs_key_inc(rem.end), rng.end), TRUE)
      \* remove partial overlap from existing
      ELSE IF start_cmp < 0 /\ end_cmp < 0 THEN
          remove_range_from((R \ {rng}) \cup {Rng(scoutfs_key_inc(rem.end), rng.end)},
                            Rng(rem.start, rng.start), insert)
      ELSE IF start_cmp > 0 /\ end_cmp > 0 THEN
          remove_range_from((R \ {rng}) \cup {Rng(rng.start, scoutfs_key_dec(rem.start))},
                            Rng(rng.end, rem.end), insert)
      \* erase and free existing surrounded by removal
      ELSE remove_range_from(R \ {rng}, rem, insert)

remove_range(R, rem) == remove_range_from(R, rem, FALSE)

\* a coverage test that looks at the keys only
lock_coverage_any_mode(lock, key, op_mode) ==
    scoutfs_key_compare_ranges(key, key, lock.start, lock.end) = 0

\* Return true if the lock protects the use of the key.
lock_coverage(lock, key, op_mode) ==
    /\ \/ op_mode = lock.mode
       \/ (op_mode = SCOUTFS_LOCK_READ /\ lock.mode = SCOUTFS_LOCK_WRITE)
    /\ scoutfs_key_compare_ranges(key, key, lock.start, lock.end) = 0


(* ----------------------------------------------- the reader and batches *)
(* seg maps each key to the value the segments hold for it, NoVal when    *)
(* they hold none or a deletion.                                          *)

\* the sorted batch the reader builds for [start, end]
BatchOf(seg, start, end) ==
    LET RECURSIVE from(_)
        from(k) == IF k > end THEN << >>
                   ELSE IF seg[k] # NoVal THEN << [key |-> k, val |-> seg[k]] >> \o from(k + 1)
                   ELSE from(k + 1)
    IN  from(start)

batch_item(val) == [alloc_item(val) EXCEPT !.persistent = TRUE]

\* a batch insert that replaces the items it finds
insert_batch_overwrite(c, list, start, end) ==
    IF start > end THEN [cac |-> c, ret |-> EINVAL]
    ELSE
      LET RECURSIVE each(_, _)
          each(d, i) ==
              IF i > Len(list) THEN d
              ELSE each(insert_item(d, list[i].key, batch_item(list[i].val),
                                    TRUE, FALSE, FALSE).cac, i + 1)
      IN  [cac |-> each([c EXCEPT !.ranges = insert_range(@, Rng(start, end))], 1),
           ret |-> 0]

scoutfs_item_insert_batch(cac, list, start, end) ==
    IF start > end THEN [cac |-> cac, ret |-> EINVAL]
    ELSE
      LET RECURSIVE each(_, _)
          each(c, i) ==
              IF i > Len(list) THEN c
              ELSE each(insert_item(c, list[i].key, batch_item(list[i].val),
                                    FALSE, TRUE, FALSE).cac, i + 1)
      IN  [cac |-> each([cac EXCEPT !.ranges = insert_range(@, Rng(start, end))], 1),
           ret |-> 0]

\* a reader that may report success without having inserted a batch
scoutfs_manifest_read_items_nothing(cac, seg, key, lock_start, lock_end) ==
    { scoutfs_item_insert_batch(cac, BatchOf(seg, s, e), s, e) :
        s \in lock_start .. key, e \in key .. lock_end }
    \cup { [cac |-> cac, ret |-> 0], [cac |-> cac, ret |-> EIO] }

(* scoutfs_manifest_read_items: the reader reads some range around key     *)
(* inside the lock's range and inserts it as a batch, or fails.           *)
scoutfs_manifest_read_items(cac, seg, key, lock_start, lock_end) ==
    { scoutfs_item_insert_batch(cac, BatchOf(seg, s, e), s, e) :
        s \in lock_start .. key, e \in key .. lock_end }
    \cup { [cac |-> cac, ret |-> EIO] }

(* ------------------------------------------ the sections under cac->lock *)
(* Each returns the cache it leaves, ret, the bytes copied to the caller   *)
(* (val) and the items handed to the caller's list (sv).                  *)

Res(cac, ret, val, sv) == [cac |-> cac, ret |-> ret, val |-> val, sv |-> sv]

\* no item: -ENOENT inside a cached range, -ENODATA outside
missing(cac, key) ==
    IF check_range(cac.ranges, key) THEN Res(cac, ENOENT, << >>, << >>)
    ELSE Res(cac, ENODATA, << >>, << >>)

lookup_copied(cac, item, copied) ==
    Res(item_referenced(cac, item), Len(copied), copied, << >>)

lookup_item(cac, key, buf, item) ==
    IF item # NIL THEN lookup_copied(cac, item, copy_item_val(buf, cac.items.nd[item]))
    ELSE missing(cac, key)

lookup_locked(cac, key, buf) == lookup_item(cac, key, buf, find_item(cac.items, key))

create_inserted(r, key) ==
    IF r.ret = 0 THEN Res(mark_item_dirty(r.cac, key), 0, << >>, << >>)
    ELSE Res(r.cac, r.ret, << >>, << >>)

\* a create that replaces whatever is at the key
create_locked_over(c, key, val, freed) ==
    IF ~check_range(c.ranges, key) THEN Res(c, ENODATA, << >>, << >>)
    ELSE create_inserted(insert_item(c, key, alloc_item(val), TRUE, FALSE, freed), key)

create_locked(cac, key, val, freed) ==
    IF ~check_range(cac.ranges, key) THEN Res(cac, ENODATA, << >>, << >>)
    ELSE create_inserted(insert_item(cac, key, alloc_item(val), FALSE, FALSE, freed), key)

dirty_item(cac, key, item) ==
    IF item # NIL THEN Res(mark_item_dirty(cac, item), 0, << >>, << >>)
    ELSE missing(cac, key)

dirty_locked(cac, key) == dirty_item(cac, key, find_item(cac.items, key))

set_val(cac, item, val) == [cac EXCEPT !.items.nd[item].val = val]

\* an update that leaves the counted length of the old value in place
update_item_uncounted(c, key, val, item) ==
    IF item # NIL
    THEN Res(mark_item_dirty(set_val(c, item, val), item), 0, << >>, << >>)
    ELSE missing(c, key)

update_item(cac, key, val, item) ==
    IF item # NIL
    THEN Res(mark_item_dirty(set_val(clear_item_dirty(cac, item), item, val), item),
             0, << >>, << >>)
    ELSE missing(cac, key)

update_locked(cac, key, val) == update_item(cac, key, val, find_item(cac.items, key))

delete_found(cac, key, item) ==
    IF item # NIL THEN Res(delete_item(cac, item), 0, << >>, << >>)
    ELSE missing(cac, key)

delete_locked(cac, key) == delete_found(cac, key, find_item(cac.items, key))

\* the item as the caller's list holds it: unlinked, with its subtree dirty
\* bits as they were and its own dirty bit put back
saved_item(key, it) ==
    [key |-> key, val |-> it.val, persistent |-> it.persistent,
     deletion |-> it.deletion, dirty |-> it.dirty]

\* the key was just unlinked, so insert_item replaces nothing (BUG_ON(ret))
delete_save_item(cac, key, item, it) ==
    Res(delete_item(insert_item(unlink_item(cac, item), key,
                                [alloc_item(<< >>) EXCEPT !.persistent = it.persistent],
                                FALSE, FALSE, FALSE).cac,
                    key),
        0, << >>, << saved_item(key, it) >>)

delete_save_found(cac, key, item) ==
    IF item # NIL THEN delete_save_item(cac, key, item, cac.items.nd[item])
    ELSE missing(cac, key)

delete_save_locked(cac, key) == delete_save_found(cac, key, find_item(cac.items, key))

Locked(op, cac, key, a) ==
    CASE op = "lookup" -> lookup_locked(cac, key, a.buf)
      [] op = "create" -> create_locked(cac, key, a.val, a.freed)
      [] op = "dirty" -> dirty_locked(cac, key)
      [] op = "update" -> update_locked(cac, key, a.val)
      [] op = "delete" -> delete_locked(cac, key)
      [] op = "delete_save" -> delete_save_locked(cac, key)

(* An outcome of an API call: what a section returns, the caller's key    *)
(* after the call, and the number of times the reader was called.         *)
Outcome(r, key, reads) ==
    [cac |-> r.cac, ret |-> r.ret, val |-> r.val, sv |-> r.sv, key |-> key,
     reads |-> reads]

\* a loop that returns what the section returned without calling the reader
read_items_unread(op, r, sg, key, a, lock, reads) == { Outcome(r, key, reads) }

\* do { section } while (ret == -ENODATA && (ret = read_items()) == 0)
RECURSIVE read_through(_, _, _, _, _, _, _)
read_items(op, r, seg, key, a, lock, reads) ==
    IF r.ret # ENODATA THEN { Outcome(r, key, reads) }
    ELSE UNION {
           IF f.ret = 0
           THEN read_through(op, f.cac, seg, key, a, lock, reads + 1)
           ELSE { Outcome(Res(f.cac, f.ret, << >>, << >>), key, reads + 1) } :
           f \in scoutfs_manifest_read_items(r.cac, seg, key, lock.start, lock.end) }

read_through(op, cac, seg, key, a, lock, reads) ==
    read_items(op, Locked(op, cac, key, a), seg, key, a, lock, reads)

Failed(cac, ret, key) == { Outcome(Res(cac, ret, << >>, << >>), key, 0) }

\* the API calls that read through: WARN_ON_ONCE(!lock_coverage()) first
covered_call(op, op_mode, cac, seg, key, a, lock) ==
    IF ~lock_coverage(lock, key, op_mode) THEN Failed(cac, EINVAL, key)
    ELSE read_through(op, cac, seg, key, a, lock, 0)

\* a lookup that calls the reader before it looks in the cache
lookup_read_first(c, sg, key, buf, lock) ==
    UNION { read_through("lookup", f.cac, sg, key, [buf |-> buf], lock, 1) :
            f \in { g \in scoutfs_manifest_read_items(c, sg, key, lock.start, lock.end) :
                      g.ret = 0 } }

scoutfs_item_lookup(cac, seg, key, buf, lock) ==
    covered_call("lookup", SCOUTFS_LOCK_READ, cac, seg, key, [buf |-> buf], lock)

scoutfs_item_create(cac, seg, key, val, lock, freed) ==
    covered_call("create", SCOUTFS_LOCK_WRITE, cac, seg, key,
                 [val |-> val, freed |-> freed], lock)

scoutfs_item_dirty(cac, seg, key, lock) ==
    covered_call("dirty", SCOUTFS_LOCK_WRITE, cac, seg, key, << >>, lock)

scoutfs_item_update(cac, seg, key, val, lock) ==
    covered_call("update", SCOUTFS_LOCK_WRITE, cac, seg, key, [val |-> val], lock)

scoutfs_item_delete(cac, seg, key, lock) ==
    covered_call("delete", SCOUTFS_LOCK_WRITE, cac, seg, key, << >>, lock)

scoutfs_item_delete_save(cac, seg, key, lock) ==
    covered_call("delete_save", SCOUTFS_LOCK_WRITE, cac, seg, key, << >>, lock)

(* ------------------------------------------------------- next and prev *)

\* the next linked node that isn't a deletion item and is within last
next_item_node(T, item, last) ==
    LET RECURSIVE step(_)
        after(n) == IF n = NIL THEN NIL
                    ELSE IF n > last THEN NIL
                    ELSE IF ~T.nd[n].deletion THEN n
                    ELSE step(n)
        step(it) == after(rb_next_item(T, it))
    IN  IF item = NIL THEN NIL ELSE step(item)

item_for_next_from(T, item, lim) ==
    IF item = NIL THEN NIL
    ELSE IF item > lim THEN NIL
    ELSE IF T.nd[item].deletion THEN next_item_node(T, item, lim)
    ELSE item

item_for_next(T, key, range_end, last) ==
    item_for_next_from(T, next_item(T, key), Min2(range_end, last))

prev_item_node(T, item, first) ==
    LET RECURSIVE step(_)
        before(n) == IF n = NIL THEN NIL
                     ELSE IF n < first THEN NIL
                     ELSE IF ~T.nd[n].deletion THEN n
                     ELSE step(n)
        step(it) == before(rb_prev_item(T, it))
    IN  IF item = NIL THEN NIL ELSE step(item)

item_for_prev_from(T, item, lim) ==
    IF item = NIL THEN NIL
    ELSE IF item < lim THEN NIL
    ELSE IF T.nd[item].deletion THEN prev_item_node(T, item, lim)
    ELSE item

item_for_prev(T, key, range_start, first) ==
    item_for_prev_from(T, prev_item(T, key), Max2(range_start, first))

found_copied(cac, item, copied, reads) ==
    Outcome(Res(item_referenced(cac, item), Len(copied), copied, << >>), item, reads)

\* the item found: its key goes to the caller, its value only into a buffer
Found(cac, item, buf, reads) ==
    IF buf # NIL
    THEN found_copied(cac, item, copy_item_val(buf, cac.items.nd[item]), reads)
    ELSE Outcome(Res(cac, 0, << >>, << >>), item, reads)

RECURSIVE next_loop(_, _, _, _, _, _, _, _)
next_in_range(cac, seg, key, last, buf, lock, reads, range_end, item) ==
    IF item = NIL THEN
        IF range_end < last
        \* keep searching after empty cached range
        THEN next_loop(cac, seg, key, scoutfs_key_inc(range_end), last, buf, lock, reads)
        ELSE { Outcome(Res(cac, ENOENT, << >>, << >>), key, reads) }
    ELSE { Found(cac, item, buf, reads) }

next_cached(cac, seg, key, pos, last, buf, lock, reads, range_end) ==
    next_in_range(cac, seg, key, last, buf, lock, reads, range_end,
                  item_for_next(cac.items, pos, range_end, last))

next_loop(cac, seg, key, pos, last, buf, lock, reads) ==
    IF ~check_range(cac.ranges, pos) THEN
        \* populate missing cached range starting at pos
        UNION { IF f.ret # 0
                THEN { Outcome(Res(f.cac, f.ret, << >>, << >>), key, reads + 1) }
                ELSE next_loop(f.cac, seg, key, pos, last, buf, lock, reads + 1) :
                f \in scoutfs_manifest_read_items(cac, seg, pos, lock.start, lock.end) }
    ELSE next_cached(cac, seg, key, pos, last, buf, lock, reads,
                     walk_ranges(cac.ranges, pos).end)

\* a next that searches even when the caller iterated past their last
next_limited_searching(cac, seg, key, lim, buf, lock) ==
    IF ~lock_coverage(lock, key, SCOUTFS_LOCK_READ) THEN Failed(cac, EINVAL, key)
    ELSE next_loop(cac, seg, key, key, lim, buf, lock, 0)

next_limited(cac, seg, key, lim, buf, lock) ==
    IF key > lim THEN Failed(cac, ENOENT, key)
    ELSE IF ~lock_coverage(lock, key, SCOUTFS_LOCK_READ) THEN Failed(cac, EINVAL, key)
    ELSE next_loop(cac, seg, key, key, lim, buf, lock, 0)

scoutfs_item_next(cac, seg, key, last, buf, lock) ==
    next_limited(cac, seg, key, Min2(lock.end, last), buf, lock)

RECURSIVE prev_loop(_, _, _, _, _, _, _, _)
prev_in_range(cac, seg, key, first, buf, lock, reads, range_start, item) ==
    IF item = NIL THEN
        IF range_start > first
        \* keep searching before empty cached range
        THEN prev_loop(cac, seg, key, scoutfs_key_dec(range_start), first, buf, lock, reads)
        ELSE { Outcome(Res(cac, ENOENT, << >>, << >>), key, reads) }
    ELSE { Found(cac, item, buf, reads) }

prev_cached(cac, seg, key, pos, first, buf, lock, reads, range_start) ==
    prev_in_range(cac, seg, key, first, buf, lock, reads, range_start,
                  item_for_prev(cac.items, pos, range_start, first))

prev_loop(cac, seg, key, pos, first, buf, lock, reads) ==
    IF ~check_range(cac.ranges, pos) THEN
        UNION { IF f.ret # 0
                THEN { Outcome(Res(f.cac, f.ret, << >>, << >>), key, reads + 1) }
                ELSE prev_loop(f.cac, seg, key, pos, first, buf, lock, reads + 1) :
                f \in scoutfs_manifest_read_items(cac, seg, pos, lock.start, lock.end) }
    ELSE prev_cached(cac, seg, key, pos, first, buf, lock, reads,
                     walk_ranges(cac.ranges, pos).start)

prev_limited(cac, seg, key, lim, buf, lock) ==
    IF key < lim THEN Failed(cac, ENOENT, key)
    ELSE IF ~lock_coverage(lock, key, SCOUTFS_LOCK_READ) THEN Failed(cac, EINVAL, key)
    ELSE prev_loop(cac, seg, key, key, lim, buf, lock, 0)

scoutfs_item_prev(cac, seg, key, first, buf, lock) ==
    prev_limited(cac, seg, key, Max2(lock.start, first), buf, lock)

\* a copy that takes the key of every item, deletion items too
copy_keys_all(T, key, nr) ==
    LET RECURSIVE copy(_, _)
        copy(item, keys) ==
            IF item = NIL \/ Len(keys) = nr THEN keys
            ELSE copy(rb_next_item(T, item), Append(keys, item))
    IN  copy(next_item(T, key), << >>)

\* the keys of the items from key on that aren't deletion items, nr at most
scoutfs_item_copy_keys(T, key, nr) ==
    LET RECURSIVE copy(_, _)
        copy(item, keys) ==
            IF item = NIL \/ Len(keys) = nr THEN keys
            ELSE copy(rb_next_item(T, item),
                      IF T.nd[item].deletion THEN keys ELSE Append(keys, item))
    IN  copy(next_item(T, key), << >>)

(* ------------------------------------------------ force and dirty paths *)

force_item(val) == [alloc_item(val) EXCEPT !.persistent = TRUE]

\* insert_item() with logical_overwrite always links the item
force_inserted(r, key, deletes) ==
    { Outcome(Res(IF deletes THEN delete_item(mark_item_dirty(r.cac, key), key)
                  ELSE mark_item_dirty(r.cac, key),
                  r.ret, << >>, << >>), key, 0) }

scoutfs_item_create_force(cac, key, val, lock, freed) ==
    IF ~lock_coverage(lock, key, SCOUTFS_LOCK_WRITE_ONLY) THEN Failed(cac, EINVAL, key)
    ELSE force_inserted(insert_item(cac, key, force_item(val), TRUE, FALSE, freed),
                        key, FALSE)

scoutfs_item_delete_force(cac, key, lock, freed) ==
    IF ~lock_coverage(lock, key, SCOUTFS_LOCK_WRITE_ONLY) THEN Failed(cac, EINVAL, key)
    ELSE force_inserted(insert_item(cac, key, force_item(<< >>), TRUE, FALSE, freed),
                        key, TRUE)

delete_dirty_item(cac, item) == IF item # NIL THEN delete_item(cac, item) ELSE cac

scoutfs_item_delete_dirty(cac, key) == delete_dirty_item(cac, find_item(cac.items, key))

\* an update of a dirty item that leaves the counted bytes as they were
update_dirty_item_stale(c, item, val) == set_val(c, item, val)

update_dirty_item(cac, item, val) ==
    update_dirty_item_counts(set_val(cac, item, val), 0,
                             Len(val) - Len(cac.items.nd[item].val))

\* the caller ensured that the item is dirty and has a large enough value
scoutfs_item_update_dirty(cac, key, val) ==
    update_dirty_item(cac, find_item(cac.items, key), val)

\* the saved item as restore inserts it: without its own dirty bit
restored_item(sv) ==
    [alloc_item(sv.val) EXCEPT !.persistent = sv.persistent,
                               !.deletion = sv.deletion,
                               !.dirty = ClearBit(sv.dirty, ITEM_DIRTY)]

restore_erase(cac, existing) ==
    IF existing # NIL THEN erase_item(cac, existing) ELSE cac

\* a restore that leaves every item clean
restore_mark_clean(cac, sv) == cac

restore_mark(cac, sv) ==
    IF item_is_dirty(sv) THEN mark_item_dirty(cac, sv.key) ELSE cac

restore_one(cac, sv, freed) ==
    restore_mark(insert_item(restore_erase(cac, find_item(cac.items, sv.key)),
                             sv.key, restored_item(sv), FALSE, FALSE, freed).cac,
                 sv)

\* a restore that installs the items without checking locks and ranges
restore_unchecked(cac, list, lock, freed) ==
    LET RECURSIVE each(_, _)
        each(c, i) == IF i > Len(list) THEN c
                      ELSE each(restore_one(c, list[i], freed), i + 1)
    IN  [cac |-> each(cac, 1), ret |-> 0]

(* restore: list holds the items delete_save handed out *)
scoutfs_item_restore(cac, list, lock, freed) ==
    IF list = << >> THEN [cac |-> cac, ret |-> 0]
    ELSE IF \E i \in 1 .. Len(list) :
              \/ ~lock_coverage(lock, list[i].key,
                                IF item_is_dirty(list[i]) THEN SCOUTFS_LOCK_WRITE
                                ELSE SCOUTFS_LOCK_READ)
              \/ ~check_range(cac.ranges, list[i].key)
    THEN [cac |-> cac, ret |-> EINVAL]
    ELSE
      LET RECURSIVE each(_, _)
          each(c, i) == IF i > Len(list) THEN c
                        ELSE each(restore_one(c, list[i], freed), i + 1)
      IN  [cac |-> each(cac, 1), ret |-> 0]

(* ------------------------------------------- dirty enumeration and flush *)

\* the first dirty node in the subtree starting at the given node
first_dirty(T, node) ==
    LET RECURSIVE walk(_)
        walk(n) ==
            IF n = NIL THEN NIL
            ELSE IF HasBit(T.nd[n].dirty, LEFT_DIRTY) THEN walk(T.nd[n].left)
            ELSE IF item_is_dirty(T.nd[n]) THEN n
            ELSE IF HasBit(T.nd[n].dirty, RIGHT_DIRTY) THEN walk(T.nd[n].right)
            ELSE NIL
    IN  walk(node)

next_dirty(T, item) ==
    LET RECURSIVE greater_parent(_)
        greater_parent(n) ==
            IF T.nd[n].parent # NIL /\ T.nd[T.nd[n].parent].right = n
            THEN greater_parent(T.nd[n].parent) ELSE T.nd[n].parent
        RECURSIVE walk(_)
        from(parent) ==
            IF parent = NIL THEN NIL
            ELSE IF item_is_dirty(T.nd[parent]) THEN parent
            ELSE walk(parent)
        walk(it) ==
            IF it = NIL THEN NIL
            ELSE IF HasBit(T.nd[it].dirty, RIGHT_DIRTY) THEN first_dirty(T, T.nd[it].right)
            ELSE from(greater_parent(it))
    IN  walk(item)

dirty_from(T, first) ==
    IF first # NIL /\ ~item_is_dirty(T.nd[first]) THEN next_dirty(T, first) ELSE first

within(item, end) == item # NIL /\ item <= end

dirty_item_within(T, from, end) == within(dirty_from(T, next_item(T, from)), end)

\* clear_item_dirty(); item->persistent = 1
written_item(cac, item) ==
    [clear_item_dirty(cac, item) EXCEPT !.items.nd[item].persistent = TRUE]

\* a flush that leaves the deletion items it has written in the cache
written_next_kept(c, del) == [cac |-> c, item |-> next_dirty(c.items, del)]

\* del = item; item = next_dirty(item); if (del->deletion) erase_item(del)
written_next(cac, del) ==
    [cac |-> IF cac.items.nd[del].deletion THEN erase_item(cac, del) ELSE cac,
     item |-> next_dirty(cac.items, del)]

appended(it, key) == [key |-> key, val |-> it.val, deletion |-> it.deletion]

(* scoutfs_item_dirty_seg: log is what scoutfs_seg_append_item was given *)
scoutfs_item_dirty_seg(cac) ==
    LET RECURSIVE loop(_, _, _)
        continue(n, log) == loop(n.cac, n.item, log)
        loop(c, item, log) ==
            IF item = NIL THEN [cac |-> c, log |-> log]
            ELSE continue(written_next(written_item(c, item), item),
                          Append(log, appended(c.items.nd[item], item)))
    IN  loop(cac, first_dirty(cac.items, cac.items.root), << >>)

\* the segments once the appended items are written
SegWrite(seg, log) ==
    LET RECURSIVE apply(_, _)
        apply(sg, i) ==
            IF i > Len(log) THEN sg
            ELSE apply([sg EXCEPT ![log[i].key] =
                           IF log[i].deletion THEN NoVal ELSE log[i].val], i + 1)
    IN  apply(seg, 1)

\* whether scoutfs_item_writeback issues a sync
writeback_sync(cac, start, end) ==
    cac.nr_dirty_items # 0 /\ dirty_item_within(cac.items, start, end)

(* ------------------------------------------------------------ invalidate *)

\* an invalidate that erases the items and leaves the cached ranges alone
invalidated_covered(r, start, end) == [cac |-> r.cac, ret |-> r.count]

invalidated(r, start, end) ==
    [cac |-> [r.cac EXCEPT !.ranges = remove_range(@, Rng(start, end))],
     ret |-> r.count]

scoutfs_item_invalidate(cac, start, end) ==
    LET RECURSIVE loop(_, _, _)
        loop(c, item, count) ==
            IF item = NIL \/ item > end THEN [cac |-> c, count |-> count]
            ELSE loop(erase_item(c, item), rb_next_item(c.items, item), count + 1)
    IN  invalidated(loop(cac, next_item(cac.items, start), 0), start, end)

(* -------------------------------------------------------------- shrinker *)

\* a boundary walk that goes on past dirty items
shrink_boundary_through(T, start_item, end, right) ==
    LET RECURSIVE loop(_, _)
        look(item, next) ==
            IF next = NIL \/ (IF right THEN next > end ELSE next < end)
            THEN [found |-> item, next |-> NIL]
            ELSE loop(next, item)
        loop(item, from) ==
            look(item, IF right THEN rb_next_item(T, item) ELSE rb_prev_item(T, item))
    IN  loop(start_item, NIL)

shrink_boundary(T, start_item, end, right) ==
    LET RECURSIVE loop(_, _, _, _)
        look(i, item, found, next_ret, next, cmp) ==
            \* stop at the edge of the range
            IF next = NIL \/ (IF right THEN next > end ELSE next < end)
            THEN [found |-> item, next |-> NIL]
            \* record the boundary at a gap in the keys; stop at a dirty item
            ELSE IF (cmp /\ i >= BOUNDARY_MIN) \/ item_is_dirty(T.nd[next])
            THEN [found |-> IF cmp THEN item ELSE found,
                  next |-> IF cmp THEN next ELSE next_ret]
            ELSE loop(i + 1, next, IF cmp THEN item ELSE found,
                      IF cmp THEN next ELSE next_ret)
        gap(i, item, found, next_ret, next) ==
            look(i, item, found, next_ret, next,
                 IF right THEN scoutfs_key_inc(item) <= next
                 ELSE scoutfs_key_dec(item) >= next)
        loop(i, item, found, next_ret) ==
            IF i >= BOUNDARY_MAX THEN [found |-> found, next |-> next_ret]
            ELSE gap(i, item, found, next_ret,
                     IF right THEN rb_next_item(T, item) ELSE rb_prev_item(T, item))
    IN  loop(0, start_item, NIL, NIL)

\* erase the items from first to last
shrink_erase(cac, first, last, nr) ==
    LET RECURSIVE loop(_, _, _)
        loop(c, it, n) ==
            IF it = NIL THEN [cac |-> c, nr |-> n]
            ELSE loop(erase_item(c, it),
                      IF it = last THEN NIL ELSE rb_next_item(c.items, it), n + 1)
    IN  loop(cac, first, nr)

\* a shrink that leaves the cached ranges as they are
shrink_ranges_kept(R, rng, first, prev, last, next) == R

\* a shrink that gives up the far part of a range it should split
shrink_ranges_unsplit(R, rng, first, prev, last, next) ==
    IF prev # NIL THEN (R \ {rng}) \cup {Rng(rng.start, scoutfs_key_dec(first))}
    ELSE IF next # NIL THEN (R \ {rng}) \cup {Rng(scoutfs_key_inc(last), rng.end)}
    ELSE R \ {rng}

\* the ranges once the range is shrunk around first..last
shrink_ranges(R, rng, first, prev, last, next) ==
    \* set end of remaining existing range and add new range, stealing existing end
    IF prev # NIL /\ next # NIL
    THEN insert_range((R \ {rng}) \cup {Rng(rng.start, scoutfs_key_dec(first))},
                      Rng(scoutfs_key_inc(last), rng.end))
    ELSE IF prev # NIL THEN (R \ {rng}) \cup {Rng(rng.start, scoutfs_key_dec(first))}
    \* set start of remaining existing range
    ELSE IF next # NIL THEN (R \ {rng}) \cup {Rng(scoutfs_key_inc(last), rng.end)}
    \* totally emptied the range
    ELSE R \ {rng}

\* a split uses the last item's memory for the new range
shrink_split(cac, R, first, last) ==
    shrink_erase([unlink_item(cac, last) EXCEPT !.ranges = R],
                 first, rb_prev_item(cac.items, last), 1)

shrink_items(cac, rng, first, prev, last, next) ==
    \* can't shrink if we can't use neighbours
    IF first = NIL \/ last = NIL THEN [cac |-> cac, nr |-> 0]
    \* can't split if we don't have an item to use for the range
    ELSE IF next # NIL /\ prev # NIL /\ first = last THEN [cac |-> cac, nr |-> 0]
    ELSE IF next # NIL /\ prev # NIL
    THEN shrink_split(cac, shrink_ranges(cac.ranges, rng, first, prev, last, next),
                      first, last)
    ELSE shrink_erase([cac EXCEPT !.ranges =
                           shrink_ranges(@, rng, first, prev, last, next)],
                      first, last, 0)

shrink_bounded(cac, rng, lb, rb) ==
    shrink_items(cac, rng, lb.found, lb.next, rb.found, rb.next)

shrink_around(cac, rng, item) ==
    shrink_bounded(cac, rng,
                   shrink_boundary(cac.items, item, rng.start, FALSE),
                   shrink_boundary(cac.items, item, rng.end, TRUE))

\* always try to free empty ranges
shrink_empty(cac) ==
    [cac |-> IF cac.items.root = NIL THEN [cac EXCEPT !.ranges = {}] ELSE cac,
     ret |-> cac.lru_nr]

\* where the loop over the lru stands: the scan count left, the first item
\* that was moved to the tail, whether the loop has ended, and what the
\* pass did (NIL: nothing, -1: erased an item outside the ranges, else what
\* shrink_around returned)
lru_state(c, nr, first_moved, done, ret) ==
    [cac |-> c, nr |-> nr, first_moved |-> first_moved, done |-> done, ret |-> ret]

\* a loop that goes on moving the items it cannot shrink
lru_shrunk_moving(c, item, nr, first_moved, r) ==
    IF r.nr = 0 THEN
        lru_state([c EXCEPT !.lru_list = Append(Tail(@), item)], nr,
                  IF first_moved = NIL THEN item ELSE first_moved, FALSE, 0)
    ELSE lru_state(r.cac, nr - Min2(nr, r.nr), first_moved, FALSE, r.nr)

lru_shrunk(c, item, nr, first_moved, r) ==
    IF r.nr = 0 THEN
        IF first_moved = item THEN lru_state(c, nr, first_moved, TRUE, 0)
        ELSE lru_state([c EXCEPT !.lru_list = Append(Tail(@), item)], nr,
                       IF first_moved = NIL THEN item ELSE first_moved, FALSE, 0)
    ELSE lru_state(r.cac, nr - Min2(nr, r.nr), first_moved, FALSE, r.nr)

lru_ranged(c, item, nr, first_moved, rng) ==
    \* if we're not in a range just shrink the item
    IF rng.start = NIL
    THEN lru_state(erase_item(c, item), nr - 1, first_moved, FALSE, -1)
    ELSE lru_shrunk(c, item, nr, first_moved, shrink_around(c, rng, item))

\* one pass of while (nr && (item = list_first_entry_or_null(&cac->lru_list)))
lru_pass(c, nr, first_moved) ==
    IF nr = 0 \/ c.lru_list = << >> THEN lru_state(c, nr, first_moved, TRUE, NIL)
    ELSE lru_ranged(c, Head(c.lru_list), nr, first_moved,
                    walk_ranges(c.ranges, Head(c.lru_list)))

item_lru_shrink(cac, nr_to_scan) ==
    LET RECURSIVE loop(_)
        loop(s) ==
            IF s.done THEN s.cac
            ELSE loop(lru_pass(s.cac, s.nr, s.first_moved))
    IN  IF nr_to_scan = 0 THEN [cac |-> cac, ret |-> cac.lru_nr]
        ELSE shrink_empty(loop(lru_state(cac, nr_to_scan, NIL, FALSE, NIL)))

(* ============================================================ the state *)

VARIABLES
    cac,      \* the struct item_cache
    seg,      \* what the segments hold for each key
    saved,    \* the caller's list of items handed out by delete_save
    last,     \* the API call that was made last and what it returned
    logical,  \* each key's value after the writes that succeeded, NoVal if none
    hist,     \* each key's last successful writes, and "flushed" when written out
    kept,     \* a cached range has covered the key ever since its last write
    nops,     \* the number of API calls made
    batch,    \* the batches read from the segments and not yet inserted
    path      \* where a thread stands in the call it is stepping through

vars == << cac, seg, saved, last, logical, hist, kept, nops, batch, path >>

\* no call is being stepped through
Idle == [op |-> "", pc |-> "idle", held |-> FALSE, key |-> NIL, pos |-> NIL,
         arg |-> NIL, ret |-> 0, need |-> ""]

\* A scope: the keys that callers use, the locks they hold, the calls they
\* make, and the value buffers that the reads pass
Scope(keys, locks, ops) ==
    [keys |-> keys, locks |-> locks, ops |-> ops, bufs |-> Bufs]

LocksOver(lo, hi, modes) ==
    { [mode |-> m, start |-> lo, end |-> hi] : m \in modes }
    \cup { [mode |-> SCOUTFS_LOCK_READ, start |-> lo, end |-> lo] }

Core == Scope(0 .. CoreKey,
              { [mode |-> SCOUTFS_LOCK_WRITE, start |-> 0, end |-> CoreKey] }, CoreOps)

One == Scope({0}, LocksOver(0, 0, {SCOUTFS_LOCK_WRITE}), OneOps)

Save == Scope(0 .. CoreKey, { [mode |-> SCOUTFS_LOCK_WRITE, start |-> 0, end |-> CoreKey] },
              SaveOps)

\* the scope with reads that pass no buffer or a buffer that holds every
\* value
Whole(U) == [U EXCEPT !.bufs = {NIL, MaxBuf}]

\* every lock mode over all the keys
Full == Whole(Scope(Keys,
                    { [mode |-> m, start |-> 0, end |-> MaxKey] :
                        m \in {SCOUTFS_LOCK_READ, SCOUTFS_LOCK_WRITE,
                               SCOUTFS_LOCK_WRITE_ONLY} },
                    FullOps))

\* the keys a lock covers
Span(lock) == [start |-> lock.start, end |-> lock.end]

\* the dirty counters of a cache
Counted(c) == [nr |-> c.nr_dirty_items, bytes |-> c.dirty_val_bytes]

Call(op, key, arg, o) ==
    [op |-> op, key |-> key, arg |-> arg, ret |-> o.ret, val |-> o.val,
     okey |-> o.key, reads |-> o.reads, log |-> << >>]

Plain(op, key, arg, ret) ==
    [op |-> op, key |-> key, arg |-> arg, ret |-> ret, val |-> << >>,
     okey |-> key, reads |-> 0, log |-> << >>]

Push(h, e) == IF Len(h) < MaxHist THEN Append(h, e) ELSE Append(Tail(h), e)

\* the ghosts after a call that wrote the keys in written (as event e)
Wrote(written, e, c2) ==
    /\ hist' = [k \in Keys |-> IF k \in written THEN Push(hist[k], e) ELSE hist[k]]
    /\ kept' = [k \in Keys |->
                  IF k \in written THEN check_range(c2.ranges, k)
                  ELSE kept[k] /\ check_range(c2.ranges, k)]

\* scoutfs_item_setup, before any call; the segments hold some of the keys
InitOn(U) ==
    /\ cac = EmptyCache
    /\ seg \in [Keys \cup U.keys -> {NoVal, <<1>>}]
    /\ \A k \in Keys \ U.keys : seg[k] = NoVal
    /\ saved = << >>
    /\ last = Plain("init", NIL, NIL, 0)
    /\ logical = seg
    /\ hist = [k \in Keys |-> << >>]
    /\ kept = [k \in Keys |-> FALSE]
    /\ nops = 0
    /\ batch = << >>
    /\ path = Idle

Init == InitOn(Full)

Step(U) == nops < U.ops /\ nops' = nops + 1

\* the freed item that insert_item reads after erase_item: what it reads is
\* not defined, and it is read only when an item is replaced
Freed(c, key) == IF InTree(c.items, key) THEN BOOLEAN ELSE {FALSE}

(* ------------------------------------------------------------ the reads *)

Lookup(U) ==
    /\ Step(U)
    /\ \E key \in U.keys, buf \in U.bufs, lock \in U.locks :
         \E o \in scoutfs_item_lookup(cac, seg, key, buf, lock) :
            /\ cac' = o.cac
            /\ last' = Call("lookup", key, buf, o)
            /\ Wrote({}, "", o.cac)
    /\ UNCHANGED << path, batch, seg, saved, logical >>

NextItem(U) ==
    /\ Step(U)
    /\ \E key \in U.keys, lastkey \in U.keys, buf \in U.bufs, lock \in U.locks :
         \E o \in scoutfs_item_next(cac, seg, key, lastkey, buf, lock) :
            /\ cac' = o.cac
            /\ last' = Call("next", key, << lastkey, buf, Span(lock) >>, o)
            /\ Wrote({}, "", o.cac)
    /\ UNCHANGED << path, batch, seg, saved, logical >>

PrevItem(U) ==
    /\ Step(U)
    /\ \E key \in U.keys, first \in U.keys, buf \in U.bufs, lock \in U.locks :
         \E o \in scoutfs_item_prev(cac, seg, key, first, buf, lock) :
            /\ cac' = o.cac
            /\ last' = Call("prev", key, << first, buf, Span(lock) >>, o)
            /\ Wrote({}, "", o.cac)
    /\ UNCHANGED << path, batch, seg, saved, logical >>

CopyKeys(U) ==
    /\ Step(U)
    /\ \E key \in U.keys, nr \in 0 .. MaxNr :
         \E keys \in { scoutfs_item_copy_keys(cac.items, key, nr) } :
            last' = [Plain("copy_keys", key, nr, Len(keys)) EXCEPT !.val = keys]
    /\ UNCHANGED << path, batch, cac, seg, saved, logical, hist, kept >>

(* ----------------------------------------------------------- the writes *)

\* whether create replaces a record (a deletion item) cached at the key
CreateEvent(c, key) == IF InTree(c.items, key) THEN "create_over" ELSE "create"

Create(U) ==
    /\ Step(U)
    /\ \E key \in U.keys, val \in Vals, lock \in U.locks :
         \E freed \in Freed(cac, key) :
         \E o \in scoutfs_item_create(cac, seg, key, val, lock, freed) :
            /\ cac' = o.cac
            /\ last' = Call("create", key, val, o)
            /\ logical' = IF o.ret = 0 THEN [logical EXCEPT ![key] = val] ELSE logical
            /\ Wrote(IF o.ret = 0 THEN {key} ELSE {}, CreateEvent(cac, key), o.cac)
    /\ UNCHANGED << path, batch, seg, saved >>

Update(U) ==
    /\ Step(U)
    /\ \E key \in U.keys, val \in Vals, lock \in U.locks :
         \E o \in scoutfs_item_update(cac, seg, key, val, lock) :
            /\ cac' = o.cac
            /\ last' = Call("update", key, val, o)
            /\ logical' = IF o.ret = 0 THEN [logical EXCEPT ![key] = val] ELSE logical
            /\ Wrote(IF o.ret = 0 THEN {key} ELSE {}, "update", o.cac)
    /\ UNCHANGED << path, batch, seg, saved >>

Delete(U) ==
    /\ Step(U)
    /\ \E key \in U.keys, lock \in U.locks :
         \E o \in scoutfs_item_delete(cac, seg, key, lock) :
            /\ cac' = o.cac
            /\ last' = Call("delete", key, NIL, o)
            /\ logical' = IF o.ret = 0 THEN [logical EXCEPT ![key] = NoVal] ELSE logical
            /\ Wrote(IF o.ret = 0 THEN {key} ELSE {}, "delete", o.cac)
    /\ UNCHANGED << path, batch, seg, saved >>

Dirty(U) ==
    /\ Step(U)
    /\ \E key \in U.keys, lock \in U.locks :
         \E o \in scoutfs_item_dirty(cac, seg, key, lock) :
            /\ cac' = o.cac
            /\ last' = Call("dirty", key, NIL, o)
            /\ Wrote(IF o.ret = 0 THEN {key} ELSE {}, "dirty", o.cac)
    /\ UNCHANGED << path, batch, seg, saved, logical >>

CreateForce(U) ==
    /\ Step(U)
    /\ \E key \in U.keys, val \in Vals, lock \in U.locks :
         \E freed \in Freed(cac, key) :
         \E o \in scoutfs_item_create_force(cac, key, val, lock, freed) :
            /\ cac' = o.cac
            /\ last' = Call("create_force", key, val, o)
            /\ logical' = IF o.ret = 0 THEN [logical EXCEPT ![key] = val] ELSE logical
            /\ Wrote(IF o.ret = 0 THEN {key} ELSE {}, "create_force", o.cac)
    /\ UNCHANGED << path, batch, seg, saved >>

DeleteForce(U) ==
    /\ Step(U)
    /\ \E key \in U.keys, lock \in U.locks :
         \E freed \in Freed(cac, key) :
         \E o \in scoutfs_item_delete_force(cac, key, lock, freed) :
            /\ cac' = o.cac
            /\ last' = Call("delete_force", key, NIL, o)
            /\ logical' = IF o.ret = 0 THEN [logical EXCEPT ![key] = NoVal] ELSE logical
            /\ Wrote(IF o.ret = 0 THEN {key} ELSE {}, "delete_force", o.cac)
    /\ UNCHANGED << path, batch, seg, saved >>

DeleteSave(U) ==
    /\ Step(U)
    /\ \E key \in U.keys, lock \in U.locks :
         \E o \in scoutfs_item_delete_save(cac, seg, key, lock) :
            /\ cac' = o.cac
            /\ saved' = saved \o o.sv
            /\ last' = Call("delete_save", key, Counted(cac), o)
            /\ logical' = IF o.ret = 0 THEN [logical EXCEPT ![key] = NoVal] ELSE logical
            /\ Wrote(IF o.ret = 0 THEN {key} ELSE {}, "delete_save", o.cac)
    /\ UNCHANGED << path, batch, seg >>

SavedKeys == { saved[i].key : i \in 1 .. Len(saved) }

\* the value that the saved item of the key holds
SavedVal(k) ==
    LET i == CHOOSE i \in 1 .. Len(saved) :
                 saved[i].key = k /\ \A j \in (i + 1) .. Len(saved) : saved[j].key # k
    IN  saved[i].val

Restore(U) ==
    /\ Step(U)
    /\ \E lock \in U.locks, freed \in BOOLEAN :
         \E r \in { scoutfs_item_restore(cac, saved, lock, freed) } :
            /\ cac' = r.cac
            /\ saved' = IF r.ret = 0 THEN << >> ELSE saved
            /\ last' = Plain("restore", NIL, lock, r.ret)
            /\ logical' = IF r.ret = 0
                          THEN [k \in Keys |-> IF k \in SavedKeys THEN SavedVal(k)
                                               ELSE logical[k]]
                          ELSE logical
            /\ Wrote(IF r.ret = 0 THEN SavedKeys ELSE {}, "restore", r.cac)
    /\ UNCHANGED << path, batch, seg >>

\* the caller knows that the item is cached and dirty
DeleteDirty(U) ==
    /\ Step(U)
    /\ \E key \in U.keys :
         /\ find_item(cac.items, key) # NIL
         /\ item_is_dirty(cac.items.nd[key])
         /\ \E c2 \in { scoutfs_item_delete_dirty(cac, key) } :
            /\ cac' = c2
            /\ last' = Plain("delete_dirty", key, NIL, 0)
            /\ logical' = [logical EXCEPT ![key] = NoVal]
            /\ Wrote({key}, "delete", c2)
    /\ UNCHANGED << path, batch, seg, saved >>

\* the caller knows that the item is cached and dirty and that the value fits
UpdateDirty(U) ==
    /\ Step(U)
    /\ \E key \in U.keys, val \in Vals :
         /\ find_item(cac.items, key) # NIL
         /\ item_is_dirty(cac.items.nd[key])
         /\ Len(val) <= Len(cac.items.nd[key].val)
         /\ \E c2 \in { scoutfs_item_update_dirty(cac, key, val) } :
            /\ cac' = c2
            /\ last' = Plain("update_dirty", key, val, 0)
            /\ logical' = [logical EXCEPT ![key] = val]
            /\ Wrote({key}, "update", c2)
    /\ UNCHANGED << path, batch, seg, saved >>

(* ------------------------------------------- flush, writeback, invalidate *)

LogKeys(log) == { log[i].key : i \in 1 .. Len(log) }

\* scoutfs_item_dirty_seg fills the segment, which the transaction writes
Flush(U) ==
    /\ Step(U)
    /\ \E r \in { scoutfs_item_dirty_seg(cac) } :
        /\ cac' = r.cac
        /\ seg' = SegWrite(seg, r.log)
        /\ last' = [Plain("flush", NIL, NIL, 0) EXCEPT !.log = r.log]
        /\ Wrote(LogKeys(r.log), "flushed", r.cac)
    /\ UNCHANGED << path, batch, saved, logical >>

\* the sync that writeback issues either commits the dirty items or fails
Writeback(U) ==
    /\ Step(U)
    /\ \E start \in U.keys, end \in U.keys, fails \in BOOLEAN :
         \E sync \in { writeback_sync(cac, start, end) } :
         \E r \in { IF sync /\ ~fails THEN scoutfs_item_dirty_seg(cac)
                    ELSE [cac |-> cac, log |-> << >>] } :
            /\ cac' = r.cac
            /\ seg' = SegWrite(seg, r.log)
            /\ last' = [Plain("writeback", start, end,
                              IF sync THEN (IF fails THEN EIO ELSE cac.nr_dirty_items)
                              ELSE 0)
                            EXCEPT !.log = r.log, !.reads = IF sync THEN 1 ELSE 0]
            /\ Wrote(LogKeys(r.log), "flushed", r.cac)
    /\ UNCHANGED << path, batch, saved, logical >>

\* the caller has ensured that the items in the range are not dirty
Invalidate(U) ==
    /\ Step(U)
    /\ \E start \in U.keys, end \in U.keys :
         /\ start <= end
         /\ \A k \in start .. end :
               InTree(cac.items, k) => ~item_is_dirty(cac.items.nd[k])
         /\ \E r \in { scoutfs_item_invalidate(cac, start, end) } :
            /\ cac' = r.cac
            /\ last' = Plain("invalidate", start, end, r.ret)
            /\ Wrote({}, "", r.cac)
    /\ UNCHANGED << path, batch, seg, saved, logical >>

Shrink(U) ==
    /\ Step(U)
    /\ \E nr \in 0 .. MaxScan :
         \E r \in { item_lru_shrink(cac, nr) } :
            /\ cac' = r.cac
            \* val records how many items the call erased
            /\ last' = [Plain("shrink", NIL, nr, r.ret)
                            EXCEPT !.val = << Cardinality(DOMAIN cac.items.nd)
                                             - Cardinality(DOMAIN r.cac.items.nd) >>]
            /\ Wrote({}, "", r.cac)
    /\ UNCHANGED << path, batch, seg, saved, logical >>

(* ------------------------------------------------------- specifications *)

\* one thread calling lookup, next, prev, create, update, delete, flush,
\* shrink and invalidate on two keys
NextCore ==
    \/ Lookup(Core)
    \/ NextItem(Core)
    \/ PrevItem(Core)
    \/ Create(Core)
    \/ Update(Core)
    \/ Delete(Core)
    \/ Flush(Core)
    \/ Invalidate(Core)
    \/ Shrink(Core)

SpecCore == InitOn(Core) /\ [][NextCore]_vars

(* The traces that need a fourth call: a create over a deletion item and   *)
(* the read after it, and a create and delete of one key before a flush.   *)

\* the most calls made under SpecDeep
DeepOps == 4

Deep == Scope(0 .. CoreKey,
              { [mode |-> SCOUTFS_LOCK_WRITE, start |-> 0, end |-> CoreKey] }, DeepOps)

NextDeep ==
    \/ NextItem(Deep)
    \/ Create(Deep)
    \/ Delete(Deep)
    \/ Flush(Deep)

SpecDeep == InitOn(Deep) /\ [][NextDeep]_vars

\* the same calls, more of them, on one key
NextOne ==
    \/ Lookup(One)
    \/ NextItem(One)
    \/ PrevItem(One)
    \/ Create(One)
    \/ Update(One)
    \/ Delete(One)
    \/ Flush(One)
    \/ Invalidate(One)
    \/ Shrink(One)

SpecOne == InitOn(One) /\ [][NextOne]_vars

\* one thread creating, deleting, saving, restoring and looking up items,
\* flushing and writing back
NextSave ==
    \/ Create(Save)
    \/ Delete(Save)
    \/ DeleteSave(Save)
    \/ Restore(Save)
    \/ Flush(Save)
    \/ Lookup(Save)
    \/ Writeback(Save)

SpecSave == InitOn(Save) /\ [][NextSave]_vars

\* one thread calling any of the item API
Next ==
    \/ Lookup(Full)
    \/ NextItem(Full)
    \/ PrevItem(Full)
    \/ Create(Full)
    \/ Update(Full)
    \/ Delete(Full)
    \/ Flush(Full)
    \/ Invalidate(Full)
    \/ Shrink(Full)
    \/ Dirty(Full)
    \/ CreateForce(Full)
    \/ DeleteForce(Full)
    \/ DeleteSave(Full)
    \/ Restore(Full)
    \/ DeleteDirty(Full)
    \/ UpdateDirty(Full)
    \/ Writeback(Full)
    \/ CopyKeys(Full)

Spec == Init /\ [][Next]_vars

\* the most calls made under SpecForce
ForceOps == 5

\* a thread that holds a WRITE lock over the low keys
Locked2 == Scope(0 .. CoreKey,
                { [mode |-> SCOUTFS_LOCK_WRITE, start |-> 0, end |-> CoreKey] }, ForceOps)

\* and a WRITE_ONLY lock over the last key
Forced == Scope({MaxKey},
                { [mode |-> SCOUTFS_LOCK_WRITE_ONLY, start |-> MaxKey, end |-> MaxKey] },
                ForceOps)

\* one thread creating, saving and restoring the low keys, forcing the last
\* key, and flushing
NextForce ==
    \/ Create(Locked2)
    \/ DeleteSave(Locked2)
    \/ Restore(Locked2)
    \/ CreateForce(Forced)
    \/ DeleteForce(Forced)
    \/ Flush(Forced)

SpecForce == InitOn(Locked2) /\ [][NextForce]_vars

\* the most calls made under SpecTomb
TombOps == 3

\* a thread that holds a WRITE lock over the low keys
Tomb == Whole(Scope(0 .. CoreKey,
                    { [mode |-> SCOUTFS_LOCK_WRITE, start |-> 0, end |-> CoreKey] },
                    TombOps))

\* and a WRITE_ONLY lock over them
TombForced == Scope(0 .. CoreKey,
                    { [mode |-> SCOUTFS_LOCK_WRITE_ONLY, start |-> 0, end |-> CoreKey] },
                    TombOps)

\* one thread leaving deletion items, flushing them and reading
NextTomb ==
    \/ Delete(Tomb)
    \/ DeleteForce(TombForced)
    \/ Flush(Tomb)
    \/ Lookup(Tomb)
    \/ Update(Tomb)
    \/ Dirty(Tomb)
    \/ DeleteSave(Tomb)
    \/ NextItem(Tomb)
    \/ PrevItem(Tomb)
    \/ CopyKeys(Tomb)

SpecTomb == InitOn(Tomb) /\ [][NextTomb]_vars

\* the most calls made under SpecRestore
RestoreOps == 4

\* a thread that holds READ and WRITE locks over the low keys and a READ lock
\* over the first key
Restoring == Scope(0 .. CoreKey,
                   LocksOver(0, CoreKey, {SCOUTFS_LOCK_READ, SCOUTFS_LOCK_WRITE}),
                   RestoreOps)

\* one thread creating and saving items, invalidating ranges and restoring
NextRestore ==
    \/ Create(Restoring)
    \/ DeleteSave(Restoring)
    \/ Invalidate(Restoring)
    \/ Restore(Restoring)

SpecRestore == InitOn(Restoring) /\ [][NextRestore]_vars

(* ---------------------------------------------- a fill in two steps *)
(* The reader reads the segments without cac->lock and calls              *)
(* scoutfs_item_insert_batch afterwards; other threads' calls run between. *)

\* the most steps taken under SpecFill
FillOps == 4

Filling == Scope(0 .. CoreKey,
                 { [mode |-> SCOUTFS_LOCK_WRITE, start |-> 0, end |-> CoreKey] }, FillOps)

\* a thread found key outside the cached ranges, dropped cac->lock and its
\* reader read some range around key from the segments
ReadSegments(U) ==
    /\ Step(U)
    /\ batch = << >>
    /\ \E key \in U.keys, lock \in U.locks :
         /\ lookup_locked(cac, key, NIL).ret = ENODATA
         /\ \E start \in lock.start .. key, end \in key .. lock.end :
               batch' = << [list |-> BatchOf(seg, start, end),
                            start |-> start, end |-> end] >>
         /\ last' = Plain("read_segments", key, NIL, 0)
    /\ UNCHANGED << path, cac, seg, saved, logical, hist, kept >>

\* the reader takes cac->lock and inserts what it had read
InsertBatch(U) ==
    /\ Step(U)
    /\ batch # << >>
    /\ \E r \in { scoutfs_item_insert_batch(cac, batch[1].list, batch[1].start,
                                           batch[1].end) } :
         /\ cac' = r.cac
         /\ last' = Plain("insert_batch", batch[1].start, batch[1].end, r.ret)
         /\ Wrote({}, "", r.cac)
    /\ batch' = << >>
    /\ UNCHANGED << path, seg, saved, logical >>

\* a reader's fill in flight while other threads create, update, delete
\* and flush
NextFill ==
    \/ ReadSegments(Filling)
    \/ InsertBatch(Filling)
    \/ Create(Filling)
    \/ Update(Filling)
    \/ Delete(Filling)
    \/ Flush(Filling)

SpecFill == InitOn(Filling) /\ [][NextFill]_vars

(* ------------------------------------- a call, statement by statement *)
(* A thread steps through one call: spin_lock_irqsave, the code up to the   *)
(* next spin_unlock_irqrestore, the unlock, and what the call does with     *)
(* the lock released: the reader, the transaction sync, or its return.     *)

\* the most calls stepped through under SpecPath
PathOps == 2

Pathing == Scope(0 .. CoreKey,
                 { [mode |-> SCOUTFS_LOCK_WRITE, start |-> 0, end |-> CoreKey] }, PathOps)

\* the calls whose do-while loop runs the reader on -ENODATA
Looping == {"lookup", "create", "dirty", "update", "delete", "delete_save"}

\* the calls that write the key when they return 0
PathWrites == {"create", "update", "delete", "delete_save"}

\* what the code between a lock and the next unlock leaves: the cache, ret,
\* the iterator pos, the caller's key, what the call needs once unlocked,
\* and the items handed to the caller's list
Sect(c, ret, pos, key, need, sv) ==
    [cac |-> c, ret |-> ret, pos |-> pos, key |-> key, need |-> need, sv |-> sv]

path_looped(r, key) ==
    Sect(r.cac, r.ret, key, key, IF r.ret = ENODATA THEN "read" ELSE "", r.sv)

path_found(o, pos) == Sect(o.cac, o.ret, pos, o.key, "", << >>)

\* scoutfs_item_next's for(;;) from pos, up to its unlock
RECURSIVE path_next(_, _, _, _, _)
path_next_item(c, key, pos, lim, buf, range_end, item) ==
    IF item = NIL THEN
        IF range_end < lim
        THEN path_next(c, key, scoutfs_key_inc(range_end), lim, buf)
        ELSE Sect(c, ENOENT, pos, key, "", << >>)
    ELSE path_found(Found(c, item, buf, 0), pos)

path_next_cached(c, key, pos, lim, buf, range_end) ==
    path_next_item(c, key, pos, lim, buf, range_end,
                   item_for_next(c.items, pos, range_end, lim))

\* a search that starts one key after the position
path_next_after(c, key, pos, lim, buf) ==
    IF ~check_range(c.ranges, pos) THEN Sect(c, 0, pos, key, "read", << >>)
    ELSE path_next_cached(c, key, scoutfs_key_inc(pos), lim, buf,
                          walk_ranges(c.ranges, pos).end)

path_next(c, key, pos, lim, buf) ==
    IF ~check_range(c.ranges, pos) THEN Sect(c, 0, pos, key, "read", << >>)
    ELSE path_next_cached(c, key, pos, lim, buf, walk_ranges(c.ranges, pos).end)

\* scoutfs_item_prev's for(;;) from pos, up to its unlock
RECURSIVE path_prev(_, _, _, _, _)
path_prev_item(c, key, pos, first, buf, range_start, item) ==
    IF item = NIL THEN
        IF range_start > first
        THEN path_prev(c, key, scoutfs_key_dec(range_start), first, buf)
        ELSE Sect(c, ENOENT, pos, key, "", << >>)
    ELSE path_found(Found(c, item, buf, 0), pos)

path_prev_cached(c, key, pos, first, buf, range_start) ==
    path_prev_item(c, key, pos, first, buf, range_start,
                   item_for_prev(c.items, pos, range_start, first))

path_prev(c, key, pos, first, buf) ==
    IF ~check_range(c.ranges, pos) THEN Sect(c, 0, pos, key, "read", << >>)
    ELSE path_prev_cached(c, key, pos, first, buf, walk_ranges(c.ranges, pos).start)

path_writeback(c, start, sync) ==
    Sect(c, IF sync THEN c.nr_dirty_items ELSE 0, start, start,
         IF sync THEN "sync" ELSE "", << >>)

path_shrunk(r, nr) == Sect(r.cac, r.ret, nr, NIL, "", << >>)

\* the code that the call runs with cac->lock held
path_section(p, c, a) ==
    CASE p.op \in Looping -> path_looped(Locked(p.op, c, p.key, a), p.key)
      [] p.op = "next" ->
            \* if (ret) break, after the reader failed
            IF p.ret # 0 THEN Sect(c, p.ret, p.pos, p.key, "", << >>)
            ELSE path_next(c, p.key, p.pos, a.lim, a.buf)
      [] p.op = "prev" ->
            IF p.ret # 0 THEN Sect(c, p.ret, p.pos, p.key, "", << >>)
            ELSE path_prev(c, p.key, p.pos, a.lim, a.buf)
      [] p.op = "writeback" -> path_writeback(c, p.key, writeback_sync(c, p.key, a.lim))
      [] p.op = "shrink" -> path_shrunk(item_lru_shrink(c, a.nr), a.nr)

\* a call that goes on to the reader or the sync without unlocking
path_unlock_late(p) ==
    [p EXCEPT !.held = p.need \in {"read", "sync"},
              !.pc = CASE p.need = "read" -> "read_items"
                       [] p.need = "sync" -> "trans_sync"
                       [] OTHER -> "return"]

\* spin_unlock_irqrestore and the statement the call reaches after it
path_unlock(p) ==
    [p EXCEPT !.held = FALSE,
              !.pc = CASE p.need = "read" -> "read_items"
                       [] p.need = "sync" -> "trans_sync"
                       [] OTHER -> "return"]

\* after the reader: next and prev take the lock again whatever it returned,
\* the do-while loops only when it returned 0
path_read(p, ret) ==
    [p EXCEPT !.ret = ret,
              !.pc = IF p.op \in {"next", "prev"} \/ ret = 0 THEN "spin_lock"
                     ELSE "return"]

\* the arguments that the call uses
PathArg(op, val, buf, lim, nr) ==
    [val |-> IF op \in {"create", "update"} THEN val ELSE NoVal,
     buf |-> IF op \in {"lookup", "next", "prev"} THEN buf ELSE NIL,
     lim |-> IF op \in {"next", "prev", "writeback"} THEN lim ELSE NIL,
     nr |-> IF op = "shrink" THEN nr ELSE 0,
     freed |-> FALSE]

PathCall(U) ==
    /\ Step(U)
    /\ path.pc = "idle"
    /\ \E op \in Looping \cup {"next", "prev", "writeback", "shrink"},
          key \in U.keys, val \in Vals, buf \in {NIL, MaxBuf}, lim \in U.keys,
          nr \in 1 .. MaxScan :
          \* next and prev return -ENOENT before they lock when key is past
          \* the limit
          /\ op = "next" => key <= lim
          /\ op = "prev" => lim <= key
          /\ path' = [Idle EXCEPT !.op = op, !.pc = "spin_lock",
                               !.key = IF op = "shrink" THEN NIL ELSE key,
                               !.pos = IF op = "shrink" THEN NIL ELSE key,
                               !.arg = PathArg(op, val, buf, lim, nr)]
    /\ UNCHANGED << cac, seg, saved, last, logical, hist, kept, batch >>

PathLock(U) ==
    /\ path.pc = "spin_lock"
    /\ path' = [path EXCEPT !.held = TRUE, !.pc = "locked"]
    /\ UNCHANGED << cac, seg, saved, last, logical, hist, kept, nops, batch >>

PathSection(U) ==
    /\ path.pc = "locked"
    /\ \E freed \in IF path.op = "create" THEN Freed(cac, path.key) ELSE {FALSE} :
         \E r \in { path_section(path, cac, [path.arg EXCEPT !.freed = freed]) } :
            /\ cac' = r.cac
            /\ saved' = saved \o r.sv
            /\ path' = [path EXCEPT !.pc = "spin_unlock", !.ret = r.ret, !.pos = r.pos,
                                    !.key = r.key, !.need = r.need]
            /\ logical' = IF path.op \in PathWrites /\ r.ret = 0
                          THEN [logical EXCEPT ![path.key] = path.arg.val]
                          ELSE logical
            /\ Wrote(IF path.op \in PathWrites /\ r.ret = 0 THEN {path.key} ELSE {},
                     IF path.op = "create" THEN CreateEvent(cac, path.key) ELSE path.op,
                     r.cac)
    /\ UNCHANGED << seg, last, nops, batch >>

PathUnlock(U) ==
    /\ path.pc = "spin_unlock"
    /\ path' = path_unlock(path)
    /\ UNCHANGED << cac, seg, saved, last, logical, hist, kept, nops, batch >>

\* scoutfs_manifest_read_items, which takes cac->lock itself to insert
PathRead(U) ==
    /\ path.pc = "read_items"
    /\ \E lock \in U.locks :
         \E f \in scoutfs_manifest_read_items(cac, seg, path.pos, lock.start, lock.end) :
            /\ cac' = f.cac
            /\ path' = path_read(path, f.ret)
            /\ Wrote({}, "", f.cac)
    /\ UNCHANGED << seg, saved, last, logical, nops, batch >>

\* scoutfs_trans_sync, which commits the dirty items or fails
PathSync(U) ==
    /\ path.pc = "trans_sync"
    /\ \E fails \in BOOLEAN :
         \E r \in { IF fails THEN [cac |-> cac, log |-> << >>]
                    ELSE scoutfs_item_dirty_seg(cac) } :
            /\ cac' = r.cac
            /\ seg' = SegWrite(seg, r.log)
            /\ path' = [path EXCEPT !.pc = "return",
                                    !.ret = IF fails THEN EIO ELSE path.ret]
            /\ Wrote(LogKeys(r.log), "flushed", r.cac)
    /\ UNCHANGED << saved, last, logical, nops, batch >>

PathReturn(U) ==
    /\ path.pc = "return"
    /\ last' = Plain(path.op, path.key, path.arg, path.ret)
    /\ path' = Idle
    /\ UNCHANGED << cac, seg, saved, logical, hist, kept, nops, batch >>

\* one thread stepping through its calls
NextPath ==
    \/ PathCall(Pathing)
    \/ PathLock(Pathing)
    \/ PathSection(Pathing)
    \/ PathUnlock(Pathing)
    \/ PathRead(Pathing)
    \/ PathSync(Pathing)
    \/ PathReturn(Pathing)

SpecPath == InitOn(Pathing) /\ [][NextPath]_vars

\* the most calls made under SpecLock
LockOps == 2

\* a thread that passes locks of every mode over the low keys, and a READ
\* lock over the first key only
Locking == Whole(Scope(0 .. CoreKey,
                       LocksOver(0, CoreKey, {SCOUTFS_LOCK_READ, SCOUTFS_LOCK_WRITE,
                                              SCOUTFS_LOCK_WRITE_ONLY}),
                       LockOps))

\* one thread making the calls that check their lock
NextLock ==
    \/ Lookup(Locking)
    \/ NextItem(Locking)
    \/ PrevItem(Locking)
    \/ Create(Locking)
    \/ CreateForce(Locking)
    \/ Update(Locking)
    \/ Dirty(Locking)
    \/ Delete(Locking)
    \/ DeleteForce(Locking)
    \/ DeleteSave(Locking)

SpecLock == InitOn(Locking) /\ [][NextLock]_vars

(* =========================================================== the claims *)

\* the writes in a key's history, without the flushes that wrote it out
Writes(h) == SelectSeq(h, LAMBDA e : e # "flushed")

LastWrite(h) == IF Writes(h) = << >> THEN "" ELSE Writes(h)[Len(Writes(h))]

\* the history ends with an event of first and then the event second
EndsWith(h, first, second) ==
    Len(h) >= 2 /\ h[Len(h) - 1] \in first /\ h[Len(h)] = second

Created == { "create", "create_over" }

BufLen(buf) == IF buf = NIL THEN 0 ELSE buf

Tombstone(c, k) == InTree(c.items, k) /\ c.items.nd[k].deletion

DirtyTombstone(c, k) == Tombstone(c, k) /\ item_is_dirty(c.items.nd[k])

DirtyKeys(c) == { k \in DOMAIN c.items.nd : item_is_dirty(c.items.nd[k]) }

\* the cached range around k holds a visible item at another key
Populated(c, k) ==
    \E j \in Keys \ {k} :
        /\ find_item(c.items, j) # NIL
        /\ walk_ranges(c.ranges, k).start # NIL
        /\ walk_ranges(c.ranges, k) = walk_ranges(c.ranges, j)

\* a lookup that returned what the cache or the reader's fill gave it
LookupDone == last.op = "lookup" /\ last.ret \notin {EIO, EINVAL}

\* the lookup returned the key's logical value, cut to the buffer
ReturnsLogical ==
    /\ last.ret = Min2(Len(logical[last.key]), BufLen(last.arg))
    /\ last.val = SubSeq(logical[last.key], 1, last.ret)

(* C1: in every state reached through lookup, next, prev, create, update,  *)
(* delete, flush, shrink and invalidate, for every key inside a cached     *)
(* range the item store holds a visible item at the key if and only if the *)
(* key exists in the logical store, and the item carries the logical value.*)
C1_RangesAuthoritative ==
    \A k \in Keys :
        check_range(cac.ranges, k) =>
            /\ (find_item(cac.items, k) # NIL) <=> (logical[k] # NoVal)
            /\ find_item(cac.items, k) # NIL => cac.items.nd[k].val = logical[k]

(* C2: a lookup calls the reader only when the key has no visible item and *)
(* no cached range covers it; a lookup of a covered key returns a value    *)
(* or ENOENT without the reader; and only invalidate and shrink take a     *)
(* key's coverage away.                                                   *)
C2_ReaderOnlyOnMiss ==
    [][ /\ (last'.op = "lookup" /\ last'.reads > 0) =>
              /\ find_item(cac.items, last'.key) = NIL
              /\ ~check_range(cac.ranges, last'.key)
              /\ last'.reads = 1
        /\ (last'.op = "lookup" /\ check_range(cac.ranges, last'.key)
                                /\ last'.ret # EINVAL) =>
              /\ last'.reads = 0
              /\ last'.ret = ENOENT \/ last'.ret >= 0
        /\ \A k \in Keys :
              (check_range(cac.ranges, k) /\ ~check_range(cac'.ranges, k)) =>
                  last'.op \in { "invalidate", "shrink" } ]_vars

\* a lookup of a covered key with no item answered ENOENT from the cache
C2_Witness ==
    /\ last.op = "lookup" /\ last.reads = 0 /\ last.ret = ENOENT
    /\ check_range(cac.ranges, last.key)
    /\ ~InTree(cac.items, last.key)
    /\ seg[last.key] = NoVal

(* C3: once create(k, v) has succeeded and nothing has written k since,    *)
(* whatever was done to other keys, lookup(k) returns min(len(v), buffer   *)
(* length) and copies that prefix of v: all of v when the buffer holds it. *)
C3_LookupAfterCreate ==
    (LookupDone /\ LastWrite(hist[last.key]) \in Created) => ReturnsLogical

\* a lookup with a short buffer after a create and a write to another key
C3_Witness ==
    /\ LookupDone /\ LastWrite(hist[last.key]) \in Created
    /\ last.arg # NIL /\ last.arg < Len(logical[last.key])
    /\ last.ret = last.arg
    /\ \E j \in Keys \ {last.key} : hist[j] # << >>

(* C4: a successful update(k, v') leaves the item dirty with value v' and  *)
(* its persistent flag as it was, and changes dirty_val_bytes by len(v')   *)
(* less the length counted for the item before (0 if it was clean); update *)
(* of a covered key with no visible item returns ENOENT and changes        *)
(* nothing; and a lookup after create and update returns v'.              *)
C4_Update ==
    [][ /\ (last'.op = "update" /\ last'.ret = 0) =>
              /\ find_item(cac'.items, last'.key) # NIL
              /\ item_is_dirty(cac'.items.nd[last'.key])
              /\ cac'.items.nd[last'.key].val = last'.arg
              /\ IF find_item(cac.items, last'.key) # NIL
                 THEN /\ cac'.items.nd[last'.key].persistent =
                            cac.items.nd[last'.key].persistent
                      /\ cac'.dirty_val_bytes = cac.dirty_val_bytes + Len(last'.arg)
                            - (IF item_is_dirty(cac.items.nd[last'.key])
                               THEN Len(cac.items.nd[last'.key].val) ELSE 0)
                 \* the item came from the reader's fill, persistent and clean
                 ELSE /\ cac'.items.nd[last'.key].persistent
                      /\ cac'.dirty_val_bytes = cac.dirty_val_bytes + Len(last'.arg)
        /\ (last'.op = "update" /\ check_range(cac.ranges, last'.key)
                                /\ find_item(cac.items, last'.key) = NIL
                                /\ last'.ret # EINVAL) =>
              /\ last'.ret = ENOENT
              /\ cac' = cac
              /\ logical' = logical
        /\ (LookupDone /\ EndsWith(Writes(hist[last.key]), Created, "update"))' =>
              ReturnsLogical' ]_vars

\* an update changed the value of a dirty item that create had made
C4_Witness ==
    /\ last.op = "update" /\ last.ret = 0
    /\ EndsWith(hist[last.key], Created, "update")
    /\ cac.dirty_val_bytes = Len(last.arg)
    /\ ~cac.items.nd[last.key].persistent

(* C5: create of a key that a cached range covers and that holds a visible *)
(* item returns EEXIST without the reader and leaves the whole cache (item *)
(* store, ranges, LRU, dirty counters) as it was.                         *)
C5_CreateExists ==
    [][ (last'.op = "create" /\ check_range(cac.ranges, last'.key)
                             /\ find_item(cac.items, last'.key) # NIL
                             /\ last'.ret # EINVAL) =>
            /\ last'.ret = EEXIST
            /\ last'.reads = 0
            /\ cac' = cac ]_vars

\* a create found a dirty item at its key
C5_Witness ==
    /\ last.op = "create" /\ last.ret = EEXIST /\ last.reads = 0
    /\ find_item(cac.items, last.key) # NIL
    /\ item_is_dirty(cac.items.nd[last.key])

(* C6: after create(k, v) and then delete(k), for as long as a cached      *)
(* range has covered k since, lookup(k) returns ENOENT without calling the *)
(* reader, whether a deletion item remains at k or the item was erased.   *)
C6_LookupAfterDelete ==
    (LookupDone /\ EndsWith(Writes(hist[last.key]), Created, "delete")
                /\ kept[last.key]) =>
        (last.ret = ENOENT /\ last.reads = 0)

\* the lookup found the deletion item that the delete of a persistent item left
C6_Witness ==
    /\ LookupDone /\ EndsWith(Writes(hist[last.key]), Created, "delete")
    /\ kept[last.key]
    /\ DirtyTombstone(cac, last.key)

C8_TombstoneAfterCreateDelete ==
    (last.op = "delete" /\ last.ret = 0
        /\ EndsWith(hist[last.key], {"create"}, "delete")
        /\ Populated(cac, last.key)) =>
        Tombstone(cac, last.key)

(* C8: in a populated range, create of a key that has no record cached and *)
(* then delete of it erases the item, which was never persistent: no       *)
(* deletion item remains, and the following flush emits no record for the  *)
(* key.                                                                   *)
C8_CreateDeleteErases ==
    [][ /\ (last.op = "delete" /\ last.ret = 0
               /\ EndsWith(hist[last.key], {"create"}, "delete"))' =>
              ~InTree(cac'.items, last'.key)
        /\ last'.op = "flush" =>
              \A k \in Keys :
                  EndsWith(hist[k], {"create"}, "delete") =>
                      k \notin LogKeys(last'.log) ]_vars

\* a flush after the create and delete wrote the other key and not this one
C8_Witness ==
    /\ last.op = "flush"
    /\ \E k \in Keys :
          /\ EndsWith(hist[k], {"create"}, "delete")
          /\ ~InTree(cac.items, k)
          /\ Populated(cac, k)
          /\ k \notin LogKeys(last.log)
          /\ last.log # << >>

(* C9: a flush appends exactly the items that are dirty when it starts,    *)
(* each once, in strictly ascending key order, each with the deletion flag *)
(* of its item; no clean item is appended.                                *)
C9_FlushAppendsDirty ==
    [][ last'.op = "flush" =>
           /\ LogKeys(last'.log) = DirtyKeys(cac)
           /\ \A i, j \in 1 .. Len(last'.log) :
                 i < j => last'.log[i].key < last'.log[j].key
           /\ \A i \in 1 .. Len(last'.log) :
                 /\ InTree(cac.items, last'.log[i].key)
                 /\ last'.log[i].deletion = cac.items.nd[last'.log[i].key].deletion
                 /\ last'.log[i].val = cac.items.nd[last'.log[i].key].val ]_vars

(* C10: after a flush no item is dirty, nr_dirty_items and dirty_val_bytes *)
(* are 0, no deletion item remains, and every item written is clean,       *)
(* persistent and on the LRU.                                             *)
C10_FlushCleans ==
    last.op = "flush" =>
        /\ DirtyKeys(cac) = {}
        /\ cac.nr_dirty_items = 0
        /\ cac.dirty_val_bytes = 0
        /\ \A k \in Keys : ~Tombstone(cac, k)
        /\ \A i \in 1 .. Len(last.log) :
              ~last.log[i].deletion =>
                  /\ InTree(cac.items, last.log[i].key)
                  /\ cac.items.nd[last.log[i].key].persistent
                  /\ OnList(cac.lru_list, last.log[i].key)

\* the last event of a history, flushes included
LastEvent(h) == IF h = << >> THEN "" ELSE h[Len(h)]

\* the records that a flush appended for the key
Records(log, k) == SelectSeq(log, LAMBDA r : r.key = k)

\* create_force under a covering WRITE_ONLY lock never calls the reader and
\* never fails, and leaves at the key a dirty, persistent, visible item that
\* holds the value, whatever was cached there
C11_ForceInstalls ==
    [][ (last'.op = "create_force" /\ last'.ret # EINVAL) =>
           /\ last'.ret = 0
           /\ last'.reads = 0
           /\ find_item(cac'.items, last'.key) # NIL
           /\ item_is_dirty(cac'.items.nd[last'.key])
           /\ cac'.items.nd[last'.key].persistent
           /\ cac'.items.nd[last'.key].val = last'.arg
           /\ \A j \in Keys \ {last'.key} :
                 /\ InTree(cac'.items, j) = InTree(cac.items, j)
                 /\ InTree(cac.items, j) =>
                       cac'.items.nd[j].val = cac.items.nd[j].val ]_vars

\* the flush that follows a write of the key appends one record for it
FlushWrites(k, deletion) ==
    /\ Len(Records(last'.log, k)) = 1
    /\ Records(last'.log, k)[1].deletion = deletion
    /\ Records(last'.log, k)[1].val = (IF deletion THEN << >> ELSE logical[k])

(* C11: create_force(k, v) under a WRITE_ONLY lock covering k never calls  *)
(* the reader and never fails with EEXIST; afterwards the one item at k is *)
(* dirty, persistent, no tombstone and holds v; and after the next flush   *)
(* it is clean and persistent and the segment received one non-deletion    *)
(* record for k.                                                          *)
C11_CreateForce ==
    [][ /\ (last'.op = "create_force" /\ last'.ret # EINVAL) =>
              /\ last'.ret = 0
              /\ last'.reads = 0
              /\ find_item(cac'.items, last'.key) # NIL
              /\ item_is_dirty(cac'.items.nd[last'.key])
              /\ cac'.items.nd[last'.key].persistent
              /\ cac'.items.nd[last'.key].val = last'.arg
        /\ last'.op = "flush" =>
              \A k \in Keys :
                  LastEvent(hist[k]) = "create_force" =>
                      /\ FlushWrites(k, FALSE)
                      /\ find_item(cac'.items, k) # NIL
                      /\ ~item_is_dirty(cac'.items.nd[k])
                      /\ cac'.items.nd[k].persistent ]_vars

\* what the dirty item cached at the key adds to the counters
DirtyAt(c, k) == IF InTree(c.items, k) /\ item_is_dirty(c.items.nd[k]) THEN 1 ELSE 0

DirtyBytesAt(c, k) ==
    IF InTree(c.items, k) /\ item_is_dirty(c.items.nd[k]) THEN Len(c.items.nd[k].val) ELSE 0

\* a delete_force step that passed the lock check
ForceDeleted == last'.op = "delete_force" /\ last'.ret # EINVAL

\* what delete_force leaves at the key and in the counters
ForceDeletedItem(k) ==
    /\ last'.ret = 0
    /\ last'.reads = 0
    /\ DirtyTombstone(cac', k)
    /\ cac'.items.nd[k].persistent
    /\ cac'.items.nd[k].val = << >>
    /\ cac'.nr_dirty_items = cac.nr_dirty_items - DirtyAt(cac, k) + 1
    /\ cac'.dirty_val_bytes = cac.dirty_val_bytes - DirtyBytesAt(cac, k)

\* delete_force under a covering WRITE_ONLY lock never calls the reader and
\* leaves a dirty persistent tombstone with empty value at the key, counted
\* once in nr_dirty_items and with no bytes in dirty_val_bytes
C12_ForceDeletes == [][ ForceDeleted => ForceDeletedItem(last'.key) ]_vars

(* C12: delete_force(k) under a WRITE_ONLY lock covering k never calls the *)
(* reader and, whatever was cached at k, leaves one item at k: a dirty,    *)
(* persistent tombstone with empty value, counted once in nr_dirty_items   *)
(* and with 0 bytes in dirty_val_bytes; the next flush emits a deletion    *)
(* record for k.                                                          *)
C12_DeleteForce ==
    [][ /\ ForceDeleted => ForceDeletedItem(last'.key)
        /\ last'.op = "flush" =>
              \A k \in Keys :
                  LastEvent(hist[k]) = "delete_force" => FlushWrites(k, TRUE) ]_vars

\* the keys of [lo, hi] that exist in the logical store
Existing(lo, hi) == { k \in Keys : lo <= k /\ k <= hi /\ logical[k] # NoVal }

Lowest(S) == CHOOSE k \in S : \A j \in S : k <= j

Highest(S) == CHOOSE k \in S : \A j \in S : k >= j

\* the call copied key k to the caller with its logical value, cut to the buffer
Returned(k, buf) ==
    /\ last'.okey = k
    /\ last'.ret = Min2(Len(logical[k]), BufLen(buf))
    /\ last'.val = SubSeq(logical[k], 1, last'.ret)

\* every position of [lo, hi] is inside a cached range after the call
Filled(lo, hi) == \A k \in Keys : (lo <= k /\ k <= hi) => check_range(cac'.ranges, k)

\* next over [key, lim] gave the lowest existing key, or ENOENT when none
NextGives(key, lim, buf) ==
    IF Existing(key, lim) = {}
    THEN last'.ret = ENOENT /\ Filled(key, lim)
    ELSE Returned(Lowest(Existing(key, lim)), buf)
         /\ Filled(key, Lowest(Existing(key, lim)))

\* prev over [lim, key] gave the highest existing key, or ENOENT when none
PrevGives(key, lim, buf) ==
    IF Existing(lim, key) = {}
    THEN last'.ret = ENOENT /\ Filled(lim, key)
    ELSE Returned(Highest(Existing(lim, key)), buf)
         /\ Filled(Highest(Existing(lim, key)), key)

\* a next or prev call that passed the lock check (the only source of EINVAL),
\* with a reader that did not fail
Iterated(op) == last'.op = op /\ last'.ret \notin {EIO, EINVAL}

(* C13: with a reader that does not fail, next(key, last, lock) under a    *)
(* lock covering key, with key <= min(last, lock.end), returns the lowest  *)
(* key of [key, min(last, lock.end)] that exists in the logical store with *)
(* its value, and ENOENT exactly when there is none; every position it     *)
(* passed is inside a cached range afterwards. prev mirrors it over        *)
(* [max(first, lock.start), key].                                          *)
C13_NextPrev ==
    [][ /\ (Iterated("next") /\ last'.key <= Min2(last'.arg[1], last'.arg[3].end)) =>
              NextGives(last'.key, Min2(last'.arg[1], last'.arg[3].end), last'.arg[2])
        /\ (Iterated("prev") /\ last'.key >= Max2(last'.arg[1], last'.arg[3].start)) =>
              PrevGives(last'.key, Max2(last'.arg[1], last'.arg[3].start), last'.arg[2])
      ]_vars

\* the call answered ENOENT and left the cache and the caller's key alone
Untouched ==
    /\ last'.ret = ENOENT
    /\ last'.reads = 0
    /\ last'.okey = last'.key
    /\ last'.val = << >>
    /\ cac' = cac

(* C14: next(key, last, lock) with key > last returns ENOENT without       *)
(* calling the reader, without changing items, ranges or LRU order, and    *)
(* without writing the caller's key; so does prev with key < first.        *)
C14_PastLast ==
    [][ /\ (last'.op = "next" /\ last'.key > last'.arg[1]) => Untouched
        /\ (last'.op = "prev" /\ last'.key < last'.arg[1]) => Untouched ]_vars

\* a next past its last key, at a key that no cached range covers and that
\* the segments hold
C14_Witness ==
    /\ last.op = "next" /\ last.key > last.arg[1]
    /\ last.ret = ENOENT
    /\ ~check_range(cac.ranges, last.key)
    /\ seg[last.key] # NoVal
    /\ cac.ranges # {}

\* the calls that look an item up at their key before they act on it
Finds == { "lookup", "update", "dirty", "delete", "delete_save" }

(* C15: a deletion item is never visible through the read API: lookup,     *)
(* update, dirty, delete and delete_save of a key that holds a deletion    *)
(* item answer as for a key with no item (ENOENT, unless the lock check or *)
(* the reader failed), and next, prev and copy_keys never return the key   *)
(* of a deletion item.                                                    *)
C15_TombstoneHidden ==
    [][ /\ (last'.op \in Finds /\ Tombstone(cac, last'.key)
                               /\ last'.ret \notin {EIO, EINVAL}) =>
              /\ last'.ret = ENOENT
              /\ last'.val = << >>
        /\ (last'.op \in {"next", "prev"} /\ last'.ret >= 0) =>
              /\ ~Tombstone(cac, last'.okey)
              /\ ~Tombstone(cac', last'.okey)
        /\ last'.op = "copy_keys" =>
              \A i \in 1 .. Len(last'.val) : ~Tombstone(cac, last'.val[i]) ]_vars

\* copy_keys had room for both keys, passed over the deletion item at its
\* search key and returned only the key after it
C15_Witness ==
    /\ last.op = "copy_keys" /\ last.key = 0 /\ last.arg = MaxNr
    /\ last.val = << 1 >>
    /\ DirtyTombstone(cac, 0)

\* the last call was a delete_save that saved the item of its key
Saving == last.op = "delete_save" /\ last.ret = 0

\* the item that the last delete_save put on the caller's list
Newest(list) == list[Len(list)]

\* the item at key k is the saved item again: value, persistent flag and
\* whether it is dirty
Reinstated(c, sv) ==
    /\ find_item(c.items, sv.key) # NIL
    /\ c.items.nd[sv.key].val = sv.val
    /\ c.items.nd[sv.key].persistent = sv.persistent
    /\ item_is_dirty(c.items.nd[sv.key]) = item_is_dirty(sv)

(* C16: delete_save(k, list) and then restore(list) under the same         *)
(* covering lock, the range still cached, leave at k an item with the      *)
(* value, persistent flag and dirty state it had before the save, and      *)
(* nr_dirty_items and dirty_val_bytes as they were before the save; in     *)
(* between, lookup(k) returns ENOENT, and a deletion item is at k exactly  *)
(* when the saved item was persistent.                                    *)
C16_SaveRestore ==
    [][ /\ Saving' =>
              /\ find_item(cac'.items, last'.key) = NIL
              /\ Tombstone(cac', last'.key) <=> Newest(saved').persistent
              /\ Newest(saved').key = last'.key
              /\ find_item(cac.items, last'.key) # NIL =>
                    /\ Newest(saved').val = cac.items.nd[last'.key].val
                    /\ Newest(saved').persistent = cac.items.nd[last'.key].persistent
                    /\ item_is_dirty(Newest(saved')) =
                          item_is_dirty(cac.items.nd[last'.key])
        /\ (Saving /\ last'.op = "lookup" /\ last'.key = last.key
                   /\ last'.ret \notin {EIO, EINVAL}) =>
              /\ last'.ret = ENOENT
              /\ last'.reads = 0
              /\ cac' = cac
        /\ (Saving /\ last'.op = "restore" /\ last'.ret = 0 /\ Len(saved) = 1) =>
              /\ Reinstated(cac', saved[1])
              /\ Counted(cac') = last.arg ]_vars

\* a dirty persistent item was saved, leaving a deletion item, and restored
C16_Witness ==
    /\ last.op = "restore" /\ last.ret = 0
    /\ \E k \in Keys :
          /\ EndsWith(hist[k], {"delete_save"}, "restore")
          /\ find_item(cac.items, k) # NIL
          /\ cac.items.nd[k].persistent
          /\ item_is_dirty(cac.items.nd[k])
          /\ cac.nr_dirty_items = 1

\* the saved item is not covered by the lock in the mode it needs, or no
\* cached range covers its key
Unrestorable(sv, lock) ==
    \/ ~lock_coverage(lock, sv.key,
                      IF item_is_dirty(sv) THEN SCOUTFS_LOCK_WRITE ELSE SCOUTFS_LOCK_READ)
    \/ ~check_range(cac.ranges, sv.key)

\* the item saved last for the key
SavedItem(k) ==
    saved[CHOOSE i \in 1 .. Len(saved) :
              saved[i].key = k /\ \A j \in (i + 1) .. Len(saved) : saved[j].key # k]

\* the item at the key is the saved one, dirty if it was dirty when saved
Installed(c, sv) ==
    /\ find_item(c.items, sv.key) # NIL
    /\ c.items.nd[sv.key].val = sv.val
    /\ item_is_dirty(c.items.nd[sv.key]) = item_is_dirty(sv)

\* the key holds in d what it holds in c
SameItem(c, d, k) ==
    /\ InTree(d.items, k) = InTree(c.items, k)
    /\ InTree(c.items, k) =>
          /\ d.items.nd[k].val = c.items.nd[k].val
          /\ d.items.nd[k].deletion = c.items.nd[k].deletion
          /\ d.items.nd[k].persistent = c.items.nd[k].persistent
          /\ item_is_dirty(d.items.nd[k]) = item_is_dirty(c.items.nd[k])

(* C17: restore(list) is all or nothing: if any saved item is not covered  *)
(* by the lock in the mode it needs (WRITE if it was dirty, else READ) or  *)
(* its key is in no cached range, restore returns EINVAL and no item is    *)
(* inserted, erased or marked dirty; otherwise every saved item is         *)
(* installed, replacing whatever was cached at its key.                    *)
C17_RestoreAll ==
    [][ (last'.op = "restore" /\ saved # << >>) =>
           IF \E i \in 1 .. Len(saved) : Unrestorable(saved[i], last'.arg)
           THEN /\ last'.ret = EINVAL
                /\ cac' = cac
                /\ saved' = saved
           ELSE /\ last'.ret = 0
                /\ \A k \in SavedKeys : Installed(cac', SavedItem(k))
                /\ \A k \in Keys \ SavedKeys : SameItem(cac, cac', k) ]_vars

\* a restore was refused for one saved item whose range was invalidated,
\* though the lock covers both saved items and the other is still cached
C17_Witness ==
    /\ last.op = "restore" /\ last.ret = EINVAL
    /\ Len(saved) = 2
    /\ \A i \in 1 .. 2 : lock_coverage(last.arg, saved[i].key, SCOUTFS_LOCK_WRITE)
    /\ \E i \in 1 .. 2 : check_range(cac.ranges, saved[i].key)
    /\ \E i \in 1 .. 2 : ~check_range(cac.ranges, saved[i].key)

\* the keys of [start, end]
Within(start, end) == { k \in Keys : start <= k /\ k <= end }

(* C18: after invalidate(start, end) on a cache with no dirty item in      *)
(* [start, end], no item with a key in [start, end] remains, no key of     *)
(* [start, end] is inside a cached range, every item with a key outside    *)
(* [start, end] is as it was, and the call returned the number of items    *)
(* it erased.                                                             *)
C18_Invalidate ==
    [][ last'.op = "invalidate" =>
           /\ \A k \in Within(last'.key, last'.arg) :
                 /\ ~InTree(cac'.items, k)
                 /\ ~check_range(cac'.ranges, k)
           /\ \A k \in Keys \ Within(last'.key, last'.arg) : SameItem(cac, cac', k)
           /\ last'.ret = Cardinality({ k \in Within(last'.key, last'.arg) :
                                          InTree(cac.items, k) }) ]_vars

\* an invalidate of the middle key erased its item and split the cached range
\* around it; the items on both sides are still cached and covered
C18_Witness ==
    /\ last.op = "invalidate" /\ last.key = 1 /\ last.arg = 1 /\ last.ret = 1
    /\ \A k \in {0, 2} : find_item(cac.items, k) # NIL /\ check_range(cac.ranges, k)

\* the call issued a transaction sync
Synced == last'.reads = 1

(* C19: writeback(start, end) issues a transaction sync if and only if a   *)
(* dirty item has its key in [start, end], however clean and dirty items   *)
(* are arranged in the tree; when the sync succeeds it returns the number  *)
(* of dirty items, when it fails the sync's error, and 0 without a sync.   *)
C19_Writeback ==
    [][ last'.op = "writeback" =>
           /\ Synced <=> (DirtyKeys(cac) \cap Within(last'.key, last'.arg) # {})
           /\ last'.ret = IF ~Synced THEN 0
                          ELSE IF last'.ret < 0 THEN EIO
                          ELSE Cardinality(DirtyKeys(cac)) ]_vars

\* the keys of the items that the step erased
Evicted == (DOMAIN cac.items.nd) \ (DOMAIN cac'.items.nd)

\* a READ lock over every key
ReadAll == [mode |-> SCOUTFS_LOCK_READ, start |-> 0, end |-> MaxKey]

\* a lookup of the key in the cache c would call the reader
WouldFill(c, sg, k) ==
    \A o \in scoutfs_item_lookup(c, sg, k, NIL, ReadAll) : o.reads = 1

(* C20: after the shrinker returns, from any reachable state and for any   *)
(* nr_to_scan, no key of an item it erased is inside a cached range, so a  *)
(* lookup of an evicted key calls the reader instead of answering ENOENT   *)
(* from the cache; and every key that is still covered keeps its item.     *)
C20_ShrinkCoverage ==
    [][ last'.op = "shrink" =>
           /\ \A k \in Evicted :
                 /\ ~check_range(cac'.ranges, k)
                 /\ WouldFill(cac', seg, k)
           /\ \A k \in Keys :
                 check_range(cac'.ranges, k) => SameItem(cac, cac', k) ]_vars

\* the shrinker evicted a key that the segments hold and stopped at a dirty
\* item, which is still cached and covered
C20_Witness ==
    /\ last.op = "shrink" /\ last.val = << 1 >>
    /\ \E k \in Keys :
          /\ seg[k] # NoVal /\ logical[k] # NoVal
          /\ ~InTree(cac.items, k)
          /\ ~check_range(cac.ranges, k)
    /\ \E j \in DirtyKeys(cac) : check_range(cac.ranges, j)

\* the dirty counters and every dirty item of c are in d as they are in c
DirtyKept(c, d) ==
    /\ DirtyKeys(d) = DirtyKeys(c)
    /\ \A k \in DirtyKeys(c) : SameItem(c, d, k)
    /\ Counted(d) = Counted(c)

(* C21: the shrinker never erases or modifies a dirty item, deletion items *)
(* included: across a shrinker run the set of dirty items, their values,   *)
(* nr_dirty_items and dirty_val_bytes are unchanged, and the boundary walk *)
(* of shrink_around stops before a dirty neighbour, so no erased item was  *)
(* dirty.                                                                 *)
C21_ShrinkKeepsDirty ==
    [][ last'.op = "shrink" =>
           /\ DirtyKept(cac, cac')
           /\ \A k \in Evicted : ~item_is_dirty(cac.items.nd[k]) ]_vars

\* the shrinker erased the clean item next to a dirty deletion item of the
\* same cached range, and the walk stopped at the deletion item
C21_Witness ==
    /\ last.op = "shrink" /\ last.val = << 1 >>
    /\ \E k \in Keys :
          /\ DirtyTombstone(cac, k)
          /\ check_range(cac.ranges, k)
          /\ walk_ranges(cac.ranges, k).start = k
    /\ cac.nr_dirty_items = 1
    /\ cac.dirty_val_bytes = 0

\* every lock a caller can pass: a mode and a range of keys
AllLocks ==
    { [mode |-> m, start |-> r[1], end |-> r[2]] :
        m \in {SCOUTFS_LOCK_READ, SCOUTFS_LOCK_WRITE, SCOUTFS_LOCK_WRITE_ONLY},
        r \in { q \in Keys \X Keys : q[1] <= q[2] } }

\* coverage as the claim words it
Covers(lock, key, op_mode) ==
    /\ op_mode = lock.mode
          \/ (op_mode = SCOUTFS_LOCK_READ /\ lock.mode = SCOUTFS_LOCK_WRITE)
    /\ lock.start <= key /\ key <= lock.end

\* the call returned ret without the reader and left the cache and the
\* caller's key as they were
Answered(outs, ret, key) ==
    \A o \in outs : o.ret = ret /\ o.reads = 0 /\ o.cac = cac /\ o.key = key

\* the calls that need their key covered for writing
WritesRefused(key, lock) ==
    /\ \A val \in Vals, freed \in BOOLEAN :
          Answered(scoutfs_item_create(cac, seg, key, val, lock, freed), EINVAL, key)
    /\ \A val \in Vals : Answered(scoutfs_item_update(cac, seg, key, val, lock), EINVAL, key)
    /\ Answered(scoutfs_item_dirty(cac, seg, key, lock), EINVAL, key)
    /\ Answered(scoutfs_item_delete(cac, seg, key, lock), EINVAL, key)
    /\ Answered(scoutfs_item_delete_save(cac, seg, key, lock), EINVAL, key)

\* the calls that need their key covered by a WRITE_ONLY lock
ForcesRefused(key, lock) ==
    /\ \A val \in Vals, freed \in BOOLEAN :
          Answered(scoutfs_item_create_force(cac, key, val, lock, freed), EINVAL, key)
    /\ \A freed \in BOOLEAN :
          Answered(scoutfs_item_delete_force(cac, key, lock, freed), EINVAL, key)

\* lookup, and every call but next and prev, is refused under a lock that
\* does not cover its key in its mode
OthersRefused(key, lock) ==
    /\ lock_coverage(lock, key, SCOUTFS_LOCK_READ) = Covers(lock, key, SCOUTFS_LOCK_READ)
    /\ lock_coverage(lock, key, SCOUTFS_LOCK_WRITE) = Covers(lock, key, SCOUTFS_LOCK_WRITE)
    /\ lock_coverage(lock, key, SCOUTFS_LOCK_WRITE_ONLY) =
          Covers(lock, key, SCOUTFS_LOCK_WRITE_ONLY)
    /\ ~Covers(lock, key, SCOUTFS_LOCK_READ) =>
          \A buf \in Bufs : Answered(scoutfs_item_lookup(cac, seg, key, buf, lock), EINVAL, key)
    /\ ~Covers(lock, key, SCOUTFS_LOCK_WRITE) => WritesRefused(key, lock)
    /\ ~Covers(lock, key, SCOUTFS_LOCK_WRITE_ONLY) => ForcesRefused(key, lock)

(* C22 as it is written: lookup, next, prev, create, create_force, update,  *)
(* dirty, delete, delete_force and delete_save each return EINVAL, without *)
(* the reader and without changing the cache, whenever lock_coverage fails *)
(* for the key.                                                           *)
C22_UncoveredRefused ==
    \A key \in Keys, lock \in AllLocks :
        /\ OthersRefused(key, lock)
        /\ ~Covers(lock, key, SCOUTFS_LOCK_READ) =>
              \A lim \in Keys, buf \in Bufs :
                  /\ Answered(scoutfs_item_next(cac, seg, key, lim, buf, lock), EINVAL, key)
                  /\ Answered(scoutfs_item_prev(cac, seg, key, lim, buf, lock), EINVAL, key)

(* C22: lookup, create, create_force, update, dirty, delete, delete_force  *)
(* and delete_save each return EINVAL, without the reader and without      *)
(* changing the cache, whenever the lock does not cover the key in the     *)
(* call's mode (its mode equals the lock's, READ also under a WRITE lock,  *)
(* and the key is in [lock.start, lock.end]). next and prev do the same    *)
(* unless the key is past min(last, lock.end), or before max(first,        *)
(* lock.start): then they return ENOENT, also without the reader and       *)
(* without changing the cache.                                            *)
C22_Refused ==
    \A key \in Keys, lock \in AllLocks :
        /\ OthersRefused(key, lock)
        /\ ~Covers(lock, key, SCOUTFS_LOCK_READ) =>
              \A lim \in Keys, buf \in Bufs :
                  /\ Answered(scoutfs_item_next(cac, seg, key, lim, buf, lock),
                              IF key > Min2(lim, lock.end) THEN ENOENT ELSE EINVAL, key)
                  /\ Answered(scoutfs_item_prev(cac, seg, key, lim, buf, lock),
                              IF key < Max2(lim, lock.start) THEN ENOENT ELSE EINVAL, key)

\* a next from a key after the end of its lock, with last further on, found
\* the key past min(last, lock.end) and returned ENOENT
C22_Witness ==
    /\ last.op = "next" /\ last.ret = ENOENT /\ last.reads = 0
    /\ last.key > last.arg[3].end
    /\ last.key <= last.arg[1]
    /\ find_item(cac.items, last.key) # NIL

\* the calls that loop on -ENODATA around the reader
ReadsThrough == {"lookup", "create", "dirty", "update", "delete", "delete_save"}

\* C23: -ENODATA never leaves lookup, create, dirty, update, delete or
\* delete_save.  A call that did not call the reader was answered under the
\* lock (refused for its lock, or its key was inside a cached range, or, for
\* all but create, an item was cached at its key); a call whose key was
\* outside every cached range called the reader once and either
\* ends with the reader's error, the cache as it was and no second read, or
\* ends with its key covered and an answer computed under the lock.
C23_NoENODATA ==
    [][ last'.op \in ReadsThrough =>
          /\ last'.ret # ENODATA
          /\ last'.reads \in {0, 1}
          /\ last'.reads = 0 =>
                \/ last'.ret = EINVAL
                \/ check_range(cac.ranges, last'.key)
                \/ last'.op # "create" /\ find_item(cac.items, last'.key) # NIL
          /\ last'.reads = 1 =>
                /\ ~check_range(cac.ranges, last'.key)
                /\ \/ last'.ret = EIO /\ cac' = cac
                   \/ last'.ret # EIO /\ check_range(cac'.ranges, last'.key) ]_vars

\* an update of a key outside the cached ranges of a populated cache ended
\* with the reader's -EIO after one read
C23_Witness ==
    /\ last.op = "update" /\ last.ret = EIO /\ last.reads = 1
    /\ ~check_range(cac.ranges, last.key)
    /\ cac.ranges # {}

\* every batch a reader can hand over for the range: items at some of its
\* keys, in key order, with any values
Batches(start, end) ==
    { BatchOf(g, start, end) : g \in [Keys -> Vals \cup {NoVal}] }

BatchVal(list, k) ==
    LET i == CHOOSE i \in 1 .. Len(list) : list[i].key = k IN list[i].val

\* the keys of the batch that had no cached record, in batch order
BatchNew(c, list) ==
    LET RECURSIVE from(_)
        from(i) == IF i > Len(list) THEN << >>
                   ELSE IF InTree(c.items, list[i].key) THEN from(i + 1)
                   ELSE << list[i].key >> \o from(i + 1)
    IN  from(1)

\* the cache d is the cache c with the new keys of the batch added
BatchAdded(c, d, list, new) ==
    /\ \A k \in DOMAIN c.items.nd : SameItem(c, d, k)
    /\ DOMAIN d.items.nd = DOMAIN c.items.nd \cup { new[i] : i \in 1 .. Len(new) }
    /\ \A i \in 1 .. Len(new) :
          LET it == d.items.nd[new[i]] IN
          /\ it.val = BatchVal(list, new[i])
          /\ ~item_is_dirty(it)
          /\ it.persistent
          /\ ~it.deletion
    /\ d.lru_list = c.lru_list \o new
    /\ d.lru_nr = c.lru_nr + Len(new)
    /\ d.nr_dirty_items = c.nr_dirty_items
    /\ d.dirty_val_bytes = c.dirty_val_bytes

\* C24: scoutfs_item_insert_batch leaves every item already cached at a batch
\* key as it was (clean, dirty or deletion item: same value, flags and
\* dirtiness) and adds an item only at the batch keys that had no cached
\* record; those enter clean, persistent and at the tail of the LRU, and the
\* dirty counters are unchanged.
C24_BatchAddsOnly ==
    \A start \in Keys : \A end \in start .. MaxKey :
       \A list \in Batches(start, end) :
          \E r \in { scoutfs_item_insert_batch(cac, list, start, end) } :
             /\ r.ret = 0
             /\ BatchAdded(cac, r.cac, list, BatchNew(cac, list))

\* a lookup of key 1 read through while a dirty deletion item sat at key 0,
\* which the segments still hold, and the read range took in both keys
C24_Witness ==
    /\ last.op = "lookup" /\ last.reads = 1 /\ last.key = 1 /\ last.ret # EIO
    /\ DirtyTombstone(cac, 0)
    /\ seg[0] # NoVal
    /\ walk_ranges(cac.ranges, 0) = Rng(0, 1)
    /\ hist[0] = << "delete_force" >>

\* every key covered by a cached range has a visible item iff it logically
\* exists, and the item holds the value last written
Consistent(c) ==
    \A k \in Keys :
       check_range(c.ranges, k) =>
          /\ (find_item(c.items, k) # NIL) = (logical[k] # NoVal)
          /\ find_item(c.items, k) # NIL => c.items.nd[k].val = logical[k]

Outside(p) == p.pc \in {"read_items", "trans_sync"}

\* C26: cac->lock is never held while scoutfs_manifest_read_items or
\* scoutfs_trans_sync is called.  A call reaches either of them only by the
\* step that releases the lock, the thread changes the cache itself only
\* with the lock held (so it has taken it again after the reader), and the
\* shrinker never reaches the reader or the sync.
C26_CalledUnlocked ==
    [][ /\ Outside(path') => ~path'.held
        /\ (Outside(path') /\ ~Outside(path)) => (path.held /\ path.pc = "spin_unlock")
        /\ (cac' # cac /\ ~Outside(path)) => (path.held /\ path'.held)
        /\ (Outside(path) /\ path'.pc # "return") =>
              (path'.pc = "spin_lock" /\ ~path'.held)
        /\ path'.op = "shrink" => ~Outside(path') ]_vars

\* a next that had walked past an empty cached range stands at the reader
\* with a later pos, the lock released
C26_Witness ==
    /\ path.op = "next" /\ path.pc = "read_items" /\ ~path.held
    /\ path.pos > path.key
    /\ check_range(cac.ranges, path.key)

\* the deletion items of the cache
Tombstones(c) == { k \in DOMAIN c.items.nd : c.items.nd[k].deletion }

\* C27: every deletion item is persistent, holds no value and is dirty, so
\* none is on the LRU; and the shrinker never evicts one.
C27_TombstonesDirty ==
    [][ /\ \A k \in Tombstones(cac') :
              /\ cac'.items.nd[k].persistent
              /\ cac'.items.nd[k].val = << >>
              /\ item_is_dirty(cac'.items.nd[k])
              /\ ~OnList(cac'.lru_list, k)
        /\ last'.op = "shrink" => Tombstones(cac') = Tombstones(cac) ]_vars

\* the shrinker evicted the clean item next to a deletion item
C27_Witness ==
    /\ last.op = "shrink" /\ last.val = << 1 >>
    /\ Tombstones(cac) # {}
    /\ \A k \in DOMAIN cac.items.nd : cac.items.nd[k].deletion

RECURSIVE DirtyBytes(_, _)
DirtyBytes(c, keys) ==
    IF keys = {} THEN 0
    ELSE LET k == CHOOSE k \in keys : TRUE
         IN  Len(c.items.nd[k].val) + DirtyBytes(c, keys \ {k})

\* C28: nr_dirty_items is the number of items with ITEM_DIRTY set and
\* dirty_val_bytes is the sum of their value lengths, after every call;
\* neither counter is negative.
C28_DirtyCounters ==
    /\ cac.nr_dirty_items = Cardinality(DirtyKeys(cac))
    /\ cac.dirty_val_bytes = DirtyBytes(cac, DirtyKeys(cac))
    /\ cac.nr_dirty_items >= 0
    /\ cac.dirty_val_bytes >= 0

\* update_dirty put a one byte value into a dirty item and the counters
\* count that one item and that one byte
C28_Witness ==
    /\ last.op = "update_dirty" /\ last.arg = << 1 >>
    /\ DirtyKeys(cac) = {last.key}
    /\ cac.nr_dirty_items = 1
    /\ cac.dirty_val_bytes = 1

\* the keys on the LRU list
Listed(c) == { c.lru_list[i] : i \in 1 .. Len(c.lru_list) }

\* C29: an item of the tree is on the LRU exactly when it is clean, nothing
\* that is not in the tree is on the LRU, no item is on it twice, and lru_nr
\* is the number of items on the LRU.
C29_LruClean ==
    /\ Listed(cac) = DOMAIN cac.items.nd \ DirtyKeys(cac)
    /\ Cardinality(Listed(cac)) = Len(cac.lru_list)
    /\ cac.lru_nr = Len(cac.lru_list)

\* a flush cleaned a dirty item, which joined the clean item on the LRU
C29_Witness ==
    /\ last.op = "flush" /\ Len(last.log) = 1
    /\ Len(cac.lru_list) = 2
    /\ cac.lru_list[2] = last.log[1].key
    /\ cac.lru_nr = 2

\* the items of the subtree rooted at n
RECURSIVE Under(_, _)
Under(T, n) ==
    IF n = NIL THEN {}
    ELSE {n} \cup Under(T, T.nd[n].left) \cup Under(T, T.nd[n].right)

\* some item of the subtree rooted at n has a dirty bit set
AnyDirty(T, n) == \E x \in Under(T, n) : T.nd[x].dirty # 0

\* C30: after every call, each item's LEFT_DIRTY bit is set iff some item in
\* its left subtree has any dirty bit set, and likewise RIGHT_DIRTY for its
\* right subtree; an item that restore re-inserts carries no stale subtree
\* bits.
C30_SubtreeBits ==
    \A k \in DOMAIN cac.items.nd :
       /\ HasBit(cac.items.nd[k].dirty, LEFT_DIRTY) = AnyDirty(cac.items, cac.items.nd[k].left)
       /\ HasBit(cac.items.nd[k].dirty, RIGHT_DIRTY) = AnyDirty(cac.items, cac.items.nd[k].right)

\* restore re-inserted a saved item next to another cached item
C30_Witness ==
    /\ last.op = "restore" /\ last.ret = 0
    /\ saved = << >>
    /\ Cardinality(DOMAIN cac.items.nd) = 2

(* ------------------------------------- fills, invalidates and shrinking *)

\* the shrinker's calls use keys 0..ShrinkKey
ShrinkKey == 3

\* the most calls made under SpecShrink
ShrinkOps == 4

\* a thread that holds a WRITE lock over keys 0..ShrinkKey
Shrinking == Scope(0 .. ShrinkKey,
                   { [mode |-> SCOUTFS_LOCK_WRITE, start |-> 0, end |-> ShrinkKey] },
                   ShrinkOps)

\* one thread dirtying items, which fills the cache from the segments,
\* invalidating ranges and running the shrinker
NextShrink ==
    \/ Dirty(Shrinking)
    \/ Invalidate(Shrinking)
    \/ Shrink(Shrinking)

SpecShrink == InitOn(Shrinking) /\ [][NextShrink]_vars

(* ------------------------------------------------------------------ C31 *)

\* the keys the cached ranges in R cover
Coverage(R) == UNION { r.start .. r.end : r \in R }

\* C31: after any sequence of batch inserts, invalidates and shrinker runs
\* every cached range has start <= end and no two cached ranges share a key
C31_RangesDisjoint ==
    /\ \A r \in cac.ranges : r.start <= r.end
    /\ \A r \in cac.ranges, o \in cac.ranges :
          r # o => (r.start .. r.end) \cap (o.start .. o.end) = {}

\* a shrinker run or an invalidate left two cached ranges where a fill had
\* made one
C31_Witness ==
    /\ last.op \in {"shrink", "invalidate"}
    /\ Cardinality(cac.ranges) = 2
    /\ \E r \in cac.ranges : r.start > 0 /\ r.end < ShrinkKey

(* -------------------------------------------------- the cached ranges *)

\* the range calls use keys 0..RangeKey, where the segments hold nothing
RangeKey == 4

\* the most calls made under SpecRange
RangeOps == 4

Ranging == Scope(0 .. RangeKey,
                 { [mode |-> SCOUTFS_LOCK_READ, start |-> 0, end |-> RangeKey] },
                 RangeOps)

\* a reader that found no items between start and end inserts its batch;
\* val records the cached ranges before the call
RangeInsert(U) ==
    /\ Step(U)
    /\ \E start \in U.keys, end \in U.keys :
         /\ start <= end
         /\ \E r \in { scoutfs_item_insert_batch(cac, BatchOf(seg, start, end),
                                                start, end) } :
            /\ cac' = r.cac
            /\ last' = [Plain("insert_batch", start, end, r.ret)
                            EXCEPT !.val = << cac.ranges >>]
            /\ Wrote({}, "", r.cac)
    /\ UNCHANGED << path, batch, seg, saved, logical >>

\* scoutfs_item_invalidate of the keys from start to end; val records the
\* cached ranges before the call
RangeRemove(U) ==
    /\ Step(U)
    /\ \E start \in U.keys, end \in U.keys :
         /\ start <= end
         /\ \E r \in { scoutfs_item_invalidate(cac, start, end) } :
            /\ cac' = r.cac
            /\ last' = [Plain("invalidate", start, end, r.ret)
                            EXCEPT !.val = << cac.ranges >>]
            /\ Wrote({}, "", r.cac)
    /\ UNCHANGED << path, batch, seg, saved, logical >>

NextRange ==
    \/ RangeInsert(Ranging)
    \/ RangeRemove(Ranging)

\* the segments hold nothing: the ranges are the whole of the state
InitRange == InitOn(Ranging) /\ \A k \in Ranging.keys : seg[k] = NoVal

SpecRange == InitRange /\ [][NextRange]_vars

(* ------------------------------------------------------------------ C32 *)

\* the range call that was made last, and the cached ranges before it
Called(op) == last.op = op /\ last.ret = 0
Before == last.val[1]
Span2 == last.key .. last.arg

\* C32: insert_range makes the covered keys exactly the keys covered before
\* together with the keys from new.start to new.end, however the existing
\* ranges lie; when the new range lies inside an existing range the cached
\* ranges are left as they were
C32_InsertUnion ==
    Called("insert_batch") =>
        /\ Coverage(cac.ranges) = Coverage(Before) \cup Span2
        /\ (\E r \in Before : r.start <= last.key /\ last.arg <= r.end)
              => cac.ranges = Before

\* the inserted range overlapped one range on its left and another on its
\* right and the three became one
C32_Witness ==
    /\ Called("insert_batch")
    /\ Cardinality(Before) = 2
    /\ \A r \in Before : Span2 \cap (r.start .. r.end) # {}
                         /\ ~(Span2 \subseteq r.start .. r.end)
                         /\ ~((r.start .. r.end) \subseteq Span2)
    /\ Cardinality(cac.ranges) = 1

(* ------------------------------------------------------------------ C33 *)

\* C33: remove_range makes the covered keys exactly the keys covered before
\* without the keys from rem.start to rem.end: a range is erased only when
\* it lies inside rem, a range overlapped on one side is trimmed to
\* rem.end + 1 or rem.start - 1, and a range enclosing rem is split in two
C33_RemoveDifference ==
    Called("invalidate") =>
        Coverage(cac.ranges) = Coverage(Before) \ Span2

\* what remove_range does do: no key of rem stays covered and no key
\* becomes covered
C33_RemoveClears ==
    Called("invalidate") =>
        /\ Coverage(cac.ranges) \cap Span2 = {}
        /\ Coverage(cac.ranges) \subseteq Coverage(Before)

\* remove_range erased a whole range that reached outside rem
C33_Witness ==
    /\ Called("invalidate")
    /\ \E r \in Before :
          /\ r.start = last.key /\ last.arg < r.end
          /\ ~check_range(cac.ranges, r.end)

(* ------------------------------------------- the shrinker pass by pass *)
(* item_lru_shrink holds cac->lock from its first pass to its return, so  *)
(* no other call runs between its passes.                                 *)

\* the most calls made under SpecScan
ScanOps == 3

Scanning == Scope(0 .. ShrinkKey,
                  { [mode |-> SCOUTFS_LOCK_WRITE, start |-> 0, end |-> ShrinkKey] },
                  ScanOps)

\* path while the shrinker runs: key is nr_to_scan, arg the scan count left,
\* pos the first item moved to the tail
InShrink(pc) == path.op = "shrink" /\ path.pc = pc

\* nr = sc->nr_to_scan; if (nr == 0) goto out; spin_lock_irqsave()
ShrinkCall(U) ==
    /\ Step(U)
    /\ path = Idle
    /\ \E nr \in 0 .. MaxScan :
         /\ path' = [Idle EXCEPT !.op = "shrink",
                                 !.pc = IF nr = 0 THEN "out" ELSE "loop",
                                 !.held = nr > 0, !.key = nr, !.arg = nr]
         /\ last' = Plain("shrink_call", NIL, nr, 0)
    /\ UNCHANGED << cac, seg, saved, logical, hist, kept, batch >>

\* one pass of the while loop; last records the item at the head of the
\* lru, the scan count before the pass and what the pass did
ShrinkPass(U) ==
    /\ InShrink("loop")
    /\ \E s \in { lru_pass(cac, path.arg, path.pos) } :
         /\ cac' = s.cac
         /\ path' = [path EXCEPT !.pc = IF s.done THEN "empty" ELSE "loop",
                                 !.arg = s.nr, !.pos = s.first_moved]
         /\ last' = Plain("pass", IF cac.lru_list = << >> THEN NIL
                                  ELSE Head(cac.lru_list), path.arg, s.ret)
         /\ Wrote({}, "", s.cac)
    /\ UNCHANGED << seg, saved, logical, nops, batch >>

\* always try to free empty ranges; spin_unlock_irqrestore(); return
ShrinkReturn(U) ==
    /\ path.op = "shrink" /\ path.pc \in {"empty", "out"}
    /\ \E r \in { IF path.pc = "empty" THEN shrink_empty(cac)
                  ELSE [cac |-> cac, ret |-> cac.lru_nr] } :
         /\ cac' = r.cac
         /\ last' = Plain("shrink", NIL, path.key, r.ret)
         /\ Wrote({}, "", r.cac)
    /\ path' = Idle
    /\ UNCHANGED << seg, saved, logical, nops, batch >>

\* one thread dirtying items and invalidating ranges, and the shrinker
NextScan ==
    \/ path = Idle /\ Dirty(Scanning)
    \/ path = Idle /\ Invalidate(Scanning)
    \/ ShrinkCall(Scanning)
    \/ ShrinkPass(Scanning)
    \/ ShrinkReturn(Scanning)

SpecScan == InitOn(Scanning) /\ [][NextScan]_vars

(* ------------------------------------------------------------------ C34 *)

\* the items in the tree
Items(c) == DOMAIN c.items.nd

\* a pass that erased items lowered the scan count; a pass that erased
\* nothing moved the head of the lru to the tail or ended the loop at the
\* first item it had moved
PassStep ==
    InShrink("loop") /\ path.arg > 0 /\ cac.lru_list # << >> =>
        \/ /\ Items(cac') \subseteq Items(cac) /\ Items(cac') # Items(cac)
           /\ path'.arg < path.arg
           /\ path'.pc = "loop"
        \/ /\ cac'.items = cac.items /\ cac'.ranges = cac.ranges
           /\ path'.arg = path.arg
           /\ \/ /\ path'.pc = "loop"
                 /\ Head(cac.lru_list) # path.pos
                 /\ cac'.lru_list = Append(Tail(cac.lru_list), Head(cac.lru_list))
              \/ /\ path'.pc = "empty"
                 /\ Head(cac.lru_list) = path.pos
                 /\ cac'.lru_list = cac.lru_list

\* where the first item that was moved stands in the lru
Index(l, k) == CHOOSE i \in 1 .. Len(l) : l[i] = k

\* what the passes of the loop lower: the number of items, then the
\* distance of the first moved item from the head of the lru
Variant(c, p) ==
    << Cardinality(Items(c)),
       IF p.pos = NIL THEN Len(c.lru_list) + 1 ELSE Index(c.lru_list, p.pos) >>

Lower(v, w) == v[1] < w[1] \/ (v[1] = w[1] /\ v[2] < w[2])

\* a pass after which the loop goes on has lowered the variant, and the
\* first moved item is still on the lru
PassLowers ==
    InShrink("loop") /\ path'.pc = "loop" =>
        /\ path'.pos # NIL => OnList(cac'.lru_list, path'.pos)
        /\ Lower(Variant(cac', path'), Variant(cac, path))

\* C34: the shrinker loop always terminates: each pass erases at least one
\* item and lowers the scan count left, or moves an item it could not shrink
\* to the lru tail, and the loop stops when the first item it moved is back
\* at the lru head; every pass that does not end the loop lowers the pair
\* (number of items, distance of the first moved item from the lru head)
C34_ShrinkerTerminates == [][PassStep /\ PassLowers]_vars

\* the loop stopped at the first item it had moved, after a later pass had
\* erased another item
C34_Witness ==
    /\ InShrink("empty")
    /\ last.op = "pass" /\ last.ret = 0 /\ last.key = path.pos
    /\ path.arg < path.key

(* ------------------------------------------------------------------ C35 *)

\* the shrinker was called last, with a scan count above zero
Shrunk == last.op = "shrink" /\ last.arg > 0

\* no cached item has its key in the range
EmptyRange(c, r) == \A k \in Items(c) : k < r.start \/ k > r.end

\* C35: when the shrinker, called with nr_to_scan > 0, returns, every
\* cached range whose interval holds no cached item has been erased
C35_EmptyRangesErased ==
    Shrunk => \A r \in cac.ranges : ~EmptyRange(cac, r)

\* what the shrinker does do: once no item at all is cached it erases
\* every cached range
C35_ErasedWhenNoItems ==
    Shrunk /\ Items(cac) = {} => cac.ranges = {}

\* the shrinker returned and left a cached range that holds no item beside
\* a cached range that holds one
C35_Witness ==
    /\ Shrunk
    /\ \E r \in cac.ranges : EmptyRange(cac, r)
    /\ \E r \in cac.ranges : ~EmptyRange(cac, r)

(* ------------------------------------------------------------------ C36 *)

\* the items that were cached in the range, and those a step left there
\* below and above the erased run
InRange(c, r) == { k \in Items(c) : r.start <= k /\ k <= r.end }
LeftOf(r, first) == { k \in InRange(cac', r) : k < first }
RightOf(r, lst) == { k \in InRange(cac', r) : k > lst }

\* the ranges that take the place of r once the run first..lst is evicted
Replaced(r, first, lst) ==
    (IF LeftOf(r, first) # {} THEN { Rng(r.start, first - 1) } ELSE {})
    \cup (IF RightOf(r, lst) # {} THEN { Rng(lst + 1, r.end) } ELSE {})

\* shrink_around evicted the run around item from the range r
RunEvicted(item, r, n, first, lst) ==
    /\ item \in Evicted
    /\ Evicted = { k \in InRange(cac, r) : first <= k /\ k <= lst }
    /\ n = Cardinality(Evicted)
    /\ cac'.ranges = (cac.ranges \ {r}) \cup Replaced(r, first, lst)

\* shrink_around left the cache as it was: the item's neighbours on both
\* sides are dirty items of the range
Alone(item, r) ==
    /\ cac'.items = cac.items /\ cac'.ranges = cac.ranges
    /\ \E p \in InRange(cac, r), q \in InRange(cac, r) :
          /\ p = rb_prev_item(cac.items, item) /\ item_is_dirty(cac.items.nd[p])
          /\ q = rb_next_item(cac.items, item) /\ item_is_dirty(cac.items.nd[q])

Around(item, r, n) ==
    IF n = 0 THEN Alone(item, r)
    ELSE Evicted # {} /\ RunEvicted(item, r, n, Lowest(Evicted), Highest(Evicted))

\* C36: shrink_around evicts the run of items first..last around the item
\* from its range [s, e]: with items left in the range on both sides the
\* range becomes [s, first - 1] and [last + 1, e], with items left on one
\* side it becomes the one of the two on that side, with none left it is
\* erased; the items first..last are all erased and their number is
\* returned; it returns 0 and changes nothing when the item stands alone
\* between neighbours that cannot be evicted
C36_ShrinkAround ==
    [][ InShrink("loop") /\ last'.op = "pass" /\ last'.ret \notin {NIL, -1}
          => Around(last'.key, walk_ranges(cac.ranges, last'.key), last'.ret) ]_vars

\* shrink_around split a range in two around the run it evicted
C36_Witness ==
    /\ last.op = "pass" /\ last.ret >= 2
    /\ Cardinality(cac.ranges) = 2
    /\ \A r \in cac.ranges : InRange(cac, r) # {}
    /\ \E r \in cac.ranges, o \in cac.ranges :
          r.end < last.key /\ last.key < o.start

(* ------------------------------------------------------------------ C37 *)

\* the calls whose insert takes the place of an item at the same key
Replacing == {"create", "restore", "create_force", "delete_force"}

\* the step inserted an item at key k where a persistent item was cached
ReplacedPersistent(k) ==
    /\ last'.op \in Replacing /\ last'.ret = 0
    /\ InTree(cac.items, k) /\ cac.items.nd[k].persistent
    /\ InTree(cac'.items, k) /\ saved' = saved
    /\ k = last'.key

\* C37: when an insert takes the place of an item at the same key and that
\* item was persistent, the new item is persistent, so that deleting it
\* later leaves a deletion item for the next flush to write
C37_PersistenceSurvives ==
    [][ \A k \in Keys : ReplacedPersistent(k) => cac'.items.nd[k].persistent ]_vars

\* create took the place of the deletion item of a key that the segments
\* hold and the new item is not persistent
C37_Witness ==
    /\ last.op = "create" /\ last.ret = 0 /\ last.reads = 0
    /\ seg[last.key] # NoVal
    /\ Len(hist[last.key]) >= 2
    /\ hist[last.key][Len(hist[last.key]) - 1] = "delete"
    /\ ~cac.items.nd[last.key].persistent

(* ------------------------------------------------------------------ C38 *)

\* the step was a lookup that hit the item at key k, or a next or prev
\* that returned it
Referenced(k) ==
    /\ last'.op \in {"lookup", "next", "prev"}
    /\ last'.ret >= 0
    /\ k = last'.okey
    /\ InTree(cac'.items, k)

AtTail(c, k) == c.lru_list # << >> /\ c.lru_list[Len(c.lru_list)] = k

\* C38: every lookup that hits a clean item, and every next or prev that
\* returns a clean item, moves that item to the tail of the lru, so the lru
\* is ordered least recently referenced first
C38_ReferencedToTail ==
    [][ \A k \in Keys :
          Referenced(k) /\ ~item_is_dirty(cac'.items.nd[k]) => AtTail(cac', k) ]_vars

\* the value buffer of the call: next and prev reference the item only
\* when they copy its value
Copying == IF last'.op = "lookup" THEN TRUE ELSE last'.arg[2] # NIL

\* what the code does do: a lookup that hits an item with no dirty bit at
\* all, and a next or prev that copies the value of such an item, moves it
\* to the tail of the lru
C38_UnmarkedToTail ==
    [][ \A k \in Keys :
          Referenced(k) /\ Copying /\ cac'.items.nd[k].dirty = 0
              => AtTail(cac', k) ]_vars

\* next returned a clean item without copying its value and left another
\* item at the tail of the lru
C38_Witness ==
    /\ last.op = "next" /\ last.ret = 0 /\ last.arg[2] = NIL
    /\ InTree(cac.items, last.okey)
    /\ ~item_is_dirty(cac.items.nd[last.okey])
    /\ ~AtTail(cac, last.okey)

(* ----------------------------- next and prev beside another thread *)
(* One thread steps through scoutfs_item_next or scoutfs_item_prev while  *)
(* another thread of the node, under the same lock, creates items between *)
(* the calls and while the reader runs with cac->lock released.            *)

\* the most calls made under SpecIter
IterOps == 3

Iterating == Scope(Keys,
                   { [mode |-> SCOUTFS_LOCK_WRITE, start |-> 0, end |-> MaxKey] },
                   IterOps)

\* pos = *key; spin_lock_irqsave(); from is the key the caller passed, and
\* the caller asks for the key only
IterCall(U) ==
    /\ Step(U)
    /\ path.pc = "idle"
    /\ \E op \in {"next", "prev"}, key \in U.keys, lim \in U.keys :
          \* next and prev return -ENOENT before they lock when key is past
          \* the limit
          /\ op = "next" => key <= lim
          /\ op = "prev" => lim <= key
          /\ path' = [Idle EXCEPT !.op = op, !.pc = "spin_lock", !.key = key,
                               !.pos = key,
                               !.arg = [val |-> NoVal, buf |-> NIL, lim |-> lim,
                                        nr |-> 0, freed |-> FALSE, from |-> key]]
    /\ UNCHANGED << cac, seg, saved, last, logical, hist, kept, batch >>

NextIter ==
    \/ IterCall(Iterating)
    \/ PathLock(Iterating)
    \/ PathSection(Iterating)
    \/ PathUnlock(Iterating)
    \/ PathRead(Iterating)
    \/ PathReturn(Iterating)
    \/ path.pc \in {"idle", "read_items"} /\ Create(Iterating)

SpecIter == InitOn(Iterating) /\ [][NextIter]_vars

(* ------------------------------------------------------------------ C39 *)

\* no item is visible at a key from lo to hi
NoneVisible(c, lo, hi) ==
    \A k \in Keys : lo <= k /\ k <= hi => find_item(c.items, k) = NIL

\* the call has run its last section and is about to unlock and return
Returning(op) ==
    path.op = op /\ path.pc = "spin_unlock" /\ path.need = ""

\* C39: the result of a next or prev call agrees with the cache as it is
\* when the call returns, whatever other threads did while it had released
\* the lock for a fill: when next returns key k' no item is visible from key
\* up to k', and when it returns -ENOENT none is visible from key to last
C39_IterConsistent ==
    /\ Returning("next") =>
          IF path.ret >= 0 THEN NoneVisible(cac, path.arg.from, path.key - 1)
          ELSE path.ret = ENOENT => NoneVisible(cac, path.arg.from, path.arg.lim)
    /\ Returning("prev") =>
          IF path.ret >= 0 THEN NoneVisible(cac, path.key + 1, path.arg.from)
          ELSE path.ret = ENOENT => NoneVisible(cac, path.arg.lim, path.arg.from)

\* the section that ends the call searched from the position pos that the
\* call had reached when it took the lock
LastSection(op) ==
    path.op = op /\ path.pc = "locked" /\ path'.pc = "spin_unlock" /\ path'.need = ""

\* C39: the result of a next or prev call agrees with the cache as it is
\* when the call returns, from the position pos that the call had reached
\* when it last took the lock: when next returns key k' no item is visible
\* from pos up to k', and when it returns -ENOENT none is visible from pos
\* to last
C39_SectionConsistent ==
    [][ /\ LastSection("next") =>
              IF path'.ret >= 0 THEN NoneVisible(cac', path.pos, path'.key - 1)
              ELSE path'.ret = ENOENT => NoneVisible(cac', path.pos, path.arg.lim)
        /\ LastSection("prev") =>
              IF path'.ret >= 0 THEN NoneVisible(cac', path'.key + 1, path.pos)
              ELSE path'.ret = ENOENT => NoneVisible(cac', path.arg.lim, path.pos)
      ]_vars

\* next returns -ENOENT after a fill during which another thread created
\* an item at a key that the call had passed
C39_Witness ==
    /\ Returning("next") /\ path.ret = ENOENT
    /\ path.arg.from < path.pos
    /\ ~NoneVisible(cac, path.arg.from, path.pos - 1)
    /\ NoneVisible(cac, path.pos, path.arg.lim)

(* --------------------------- calls beside a thread that invalidates *)
(* One thread steps through its calls while another thread invalidates    *)
(* ranges whenever cac->lock is free; the number of calls is bounded, so   *)
(* from some point on no range is removed.                                  *)

\* the most calls made under SpecLive
LiveOps == 2

Living == Scope(0 .. CoreKey,
                { [mode |-> SCOUTFS_LOCK_WRITE, start |-> 0, end |-> CoreKey] }, LiveOps)

NextLive ==
    \/ PathCall(Living)
    \/ PathLock(Living)
    \/ PathSection(Living)
    \/ PathUnlock(Living)
    \/ PathRead(Living)
    \/ PathSync(Living)
    \/ PathReturn(Living)
    \/ ~path.held /\ Invalidate(Living)

SpecLive == InitOn(Living) /\ [][NextLive]_vars

\* a step of the calling thread: it is enabled exactly while a call is
\* under way, and every such step changes the position of the call
ThreadStep == path.pc # "idle" /\ path' # path

\* fair scheduling of the calling thread, WF_vars(ThreadStep) with its
\* enabling condition written out: the thread is not left forever in the
\* middle of a call without taking a step
ThreadFair == []<>(path.pc = "idle") \/ []<><<ThreadStep>>_vars

SpecLiveFair == SpecLive /\ ThreadFair

(* ------------------------------------------------------------------ C40 *)

\* the step is the code of the call between a lock and the next unlock
Section == path.pc = "locked" /\ path'.pc = "spin_unlock"

\* the step is a fill that succeeded
Filled1 == path.pc = "read_items" /\ path'.pc = "spin_lock" /\ path'.ret = 0

\* a cached range covers the position of the call
PosCached(c, p) == check_range(c.ranges, p.pos)

\* a section of a call that loops on -ENODATA: with the key cached it ends
\* the call, otherwise it asks for a fill of the key
LoopProgress ==
    /\ PosCached(cac, path) => path'.need = ""
    /\ path'.need = "read" => path'.pos = path.pos

\* a section of next: the position never goes back and never passes the
\* limit; the call ends or asks for a fill at a position that is not
\* cached, which lies beyond the position it started from if that was cached
NextProgress ==
    /\ path'.pos >= path.pos
    /\ path'.pos <= path.arg.lim
    /\ path'.need = "read" =>
          /\ ~PosCached(cac', path')
          /\ PosCached(cac, path) => path'.pos > path.pos

PrevProgress ==
    /\ path'.pos <= path.pos
    /\ path'.pos >= path.arg.lim
    /\ path'.need = "read" =>
          /\ ~PosCached(cac', path')
          /\ PosCached(cac, path) => path'.pos < path.pos

\* C40: when every fill succeeds and installs a range that covers the
\* position asked for, and no range is removed between a fill and the
\* section after it, every lookup, create, update, dirty, delete,
\* delete_save, next and prev call returns: a section that starts at a
\* cached position ends the call or, in next and prev, moves the position
\* strictly towards the limit, and never past it; under fair scheduling
\* a call that is under way leads to its return
C40_CallsReturn ==
    /\ [][ /\ Filled1 => PosCached(cac', path)
           /\ Section /\ path.ret = 0 =>
                 /\ path.op \in Looping => LoopProgress
                 /\ path.op = "next" => NextProgress
                 /\ path.op = "prev" => PrevProgress ]_vars
    /\ (path.pc # "idle") ~> (path.pc = "idle")

\* next is about to fill for the second time, further on, after another
\* thread had run
C40_Witness ==
    /\ path.op = "next" /\ path.pc = "read_items"
    /\ path.pos > path.key
    /\ last.op = "invalidate"

====
